---------------------------- MODULE Spec2Model ----------------------------
(***************************************************************************)
(* HAL/S language server: the semantic parser (hals_semantic_parser.py)    *)
(* and the handlers of the LSP server (hals_lsp_server.py) that drive it.  *)
(*                                                                         *)
(* A text is a sequence of one-character strings; "\n" separates lines.    *)
(* Offsets into a text are 1-based here and 0-based in the source, so a    *)
(* source offset o is index o + 1; lines and columns are 0-based as in the *)
(* source.  The regular expressions of the source are written out as       *)
(* matchers over that sequence: a matcher takes a text and a start index   *)
(* and yields the index just past the match, or 0 when there is no match.  *)
(***************************************************************************)
EXTENDS Integers, Sequences, FiniteSets, TLC

-----------------------------------------------------------------------------
(* Characters *)

UpperSeq ==
    <<"A","B","C","D","E","F","G","H","I","J","K","L","M",
      "N","O","P","Q","R","S","T","U","V","W","X","Y","Z">>

LowerSeq ==
    <<"a","b","c","d","e","f","g","h","i","j","k","l","m",
      "n","o","p","q","r","s","t","u","v","w","x","y","z">>

DigitSeq == <<"0","1","2","3","4","5","6","7","8","9">>

Range(s) == { s[i] : i \in DOMAIN s }

UpperLetters == Range(UpperSeq)
LowerLetters == Range(LowerSeq)
Digits == Range(DigitSeq)

\* str.upper() on one character
UpperChar(c) ==
    IF c \in LowerLetters
    THEN UpperSeq[CHOOSE i \in DOMAIN LowerSeq : LowerSeq[i] = c]
    ELSE c

\* str.upper()
Upper(s) == [i \in DOMAIN s |-> UpperChar(s[i])] \o <<>>

\* [A-Z_] under re.IGNORECASE
IsIdentStart(c) == c \in UpperLetters \cup LowerLetters \cup {"_"}

\* [A-Z0-9_] under re.IGNORECASE; also \w on the characters of the model
IsWordChar(c) == IsIdentStart(c) \/ c \in Digits

\* \s
IsSpace(c) == c \in {" ", "\n", "\t"}

\* \d
IsDigit(c) == c \in Digits

\* code point order of the characters that occur in names
OrdSeq == DigitSeq \o UpperSeq \o <<"_">> \o LowerSeq

Ord(c) == CHOOSE i \in DOMAIN OrdSeq : OrdSeq[i] = c

\* s < t for Python strings (lexicographic by code point)
RECURSIVE StrLess(_, _)
StrLess(s, t) ==
    IF t = <<>> THEN FALSE
    ELSE IF s = <<>> THEN TRUE
    ELSE IF s[1] # t[1] THEN Ord(s[1]) < Ord(t[1])
    ELSE StrLess(Tail(s), Tail(t))

-----------------------------------------------------------------------------
(* HALSParser.KEYWORDS *)

KEYWORDS == {
    <<"P","R","O","G","R","A","M">>, <<"P","R","O","C","E","D","U","R","E">>, <<"F","U","N","C","T","I","O","N">>,
    <<"T","A","S","K">>, <<"C","O","M","P","O","O","L">>, <<"U","P","D","A","T","E">>,
    <<"C","L","O","S","E">>, <<"R","E","T","U","R","N">>, <<"D","E","C","L","A","R","E">>,
    <<"C","O","N","S","T","A","N","T">>, <<"I","N","I","T","I","A","L">>, <<"S","T","A","T","I","C">>,
    <<"A","U","T","O","M","A","T","I","C">>, <<"T","E","M","P","O","R","A","R","Y">>, <<"D","E","N","S","E">>,
    <<"A","L","I","G","N","E","D">>, <<"R","I","G","I","D">>, <<"R","E","M","O","T","E">>,
    <<"A","C","C","E","S","S">>, <<"A","S","S","I","G","N">>, <<"N","A","M","E">>,
    <<"L","O","C","K">>, <<"E","X","C","L","U","S","I","V","E">>, <<"L","A","T","C","H","E","D">>,
    <<"R","E","P","L","A","C","E">>, <<"S","T","R","U","C","T","U","R","E">>, <<"A","R","R","A","Y">>,
    <<"I","N","T","E","G","E","R">>, <<"S","C","A","L","A","R">>, <<"V","E","C","T","O","R">>,
    <<"M","A","T","R","I","X">>, <<"B","O","O","L","E","A","N">>, <<"C","H","A","R","A","C","T","E","R">>,
    <<"B","I","T">>, <<"E","V","E","N","T">>, <<"S","I","N","G","L","E">>,
    <<"D","O","U","B","L","E">>, <<"I","F">>, <<"T","H","E","N">>,
    <<"E","L","S","E">>, <<"D","O">>, <<"E","N","D">>,
    <<"F","O","R">>, <<"T","O">>, <<"B","Y">>,
    <<"W","H","I","L","E">>, <<"U","N","T","I","L">>, <<"R","E","P","E","A","T">>,
    <<"E","X","I","T">>, <<"G","O">>, <<"G","O","T","O">>,
    <<"C","A","S","E">>, <<"S","C","H","E","D","U","L","E">>, <<"W","A","I","T">>,
    <<"S","I","G","N","A","L">>, <<"P","R","I","O","R","I","T","Y">>, <<"T","E","R","M","I","N","A","T","E">>,
    <<"C","A","N","C","E","L">>, <<"S","E","T">>, <<"R","E","S","E","T">>,
    <<"O","N">>, <<"O","F","F">>, <<"E","R","R","O","R">>,
    <<"D","E","P","E","N","D","E","N","T">>, <<"I","G","N","O","R","E">>, <<"R","E","A","D">>,
    <<"R","E","A","D","A","L","L">>, <<"W","R","I","T","E">>, <<"F","I","L","E">>,
    <<"N","O","T">>, <<"A","N","D">>, <<"O","R">>,
    <<"C","A","T">>, <<"M","O","D">>, <<"T","R","U","E">>,
    <<"F","A","L","S","E">>, <<"A","B","S">>, <<"C","E","I","L","I","N","G">>,
    <<"F","L","O","O","R">>, <<"T","R","U","N","C","A","T","E">>, <<"R","O","U","N","D">>,
    <<"O","D","D">>, <<"S","I","G","N">>, <<"M","A","X">>,
    <<"M","I","N">>, <<"S","U","M">>, <<"P","R","O","D">>,
    <<"S","H","L">>, <<"S","H","R">>, <<"S","I","Z","E">>,
    <<"L","E","N","G","T","H">>, <<"I","N","D","E","X">>, <<"M","I","D","V","A","L">>,
    <<"R","A","N","D","O","M">>, <<"R","A","N","D","O","M","G">>, <<"D","A","T","E">>,
    <<"R","U","N","T","I","M","E">>, <<"C","L","O","C","K","T","I","M","E">>, <<"P","R","I","O">>,
    <<"N","E","X","T","I","M","E">>, <<"S","I","N">>, <<"C","O","S">>,
    <<"T","A","N">>, <<"A","R","C","S","I","N">>, <<"A","R","C","C","O","S">>,
    <<"A","R","C","T","A","N">>, <<"A","R","C","T","A","N","2">>, <<"S","I","N","H">>,
    <<"C","O","S","H">>, <<"T","A","N","H">>, <<"E","X","P">>,
    <<"L","O","G">>, <<"S","Q","R","T">>, <<"T","R","A","N","S","P","O","S","E">>,
    <<"T","R","A","C","E">>, <<"D","E","T">>, <<"I","N","V","E","R","S","E">>,
    <<"I","D","E","N","T","I","T","Y">>, <<"U","N","I","T">>, <<"A","B","V","A","L">>,
    <<"D","O","T">>, <<"C","R","O","S","S">>
}

\* sorted(S) for a set of strings: each string at the place given by the
\* number of strings below it
SortedSet(S) ==
    LET below == [x \in S |-> Cardinality({y \in S : StrLess(y, x)})] @@ <<>>
    IN  [i \in 1..Cardinality(S) |-> CHOOSE x \in S : below[x] = i - 1] \o <<>>

\* sorted(self.KEYWORDS): the keywords in ascending order
SortedKeywords == SortedSet(KEYWORDS)

-----------------------------------------------------------------------------
(* String helpers *)

\* s[a:b] of the source, on 1-based indices a..b-1
Slice(s, a, b) == SubSeq(s, a, b - 1)

\* str.split(sep) for a one-character separator
RECURSIVE Split(_, _)
Split(s, sep) ==
    IF \E i \in DOMAIN s : s[i] = sep
    THEN LET i == CHOOSE k \in DOMAIN s :
                      s[k] = sep /\ \A j \in 1..(k - 1) : s[j] # sep
         IN  <<SubSeq(s, 1, i - 1)>> \o Split(SubSeq(s, i + 1, Len(s)), sep)
    ELSE <<s>>

\* sep.join(parts) for a one-character separator
RECURSIVE Join(_, _)
Join(parts, sep) ==
    IF parts = <<>> THEN <<>>
    ELSE IF Len(parts) = 1 THEN parts[1]
    ELSE parts[1] \o <<sep>> \o Join(Tail(parts), sep)

\* str.strip()
RECURSIVE LStrip(_)
LStrip(s) == IF s # <<>> /\ IsSpace(s[1]) THEN LStrip(Tail(s)) ELSE s

RECURSIVE RStrip(_)
RStrip(s) ==
    IF s # <<>> /\ IsSpace(s[Len(s)]) THEN RStrip(SubSeq(s, 1, Len(s) - 1)) ELSE s

Strip(s) == RStrip(LStrip(s))

\* s.startswith(w)
StartsWith(s, w) == Len(s) >= Len(w) /\ SubSeq(s, 1, Len(w)) = w

-----------------------------------------------------------------------------
(* Preprocessing *)

\* one line of _preprocess_multiline, with an empty line left in the place of
\* a line that starts with E or S
preprocess_line_placeholder(line) ==
    IF line # <<>>
    THEN LET first_char == UpperChar(line[1])
         IN  IF first_char \in {"E", "S"} THEN <<<<>>>>
             ELSE IF first_char = "M"
                  THEN <<IF Len(line) > 1 THEN Tail(line) ELSE <<>>>>
             ELSE IF first_char = "C"
                  THEN <<<<"/", "*">> \o Tail(line) \o <<"*", "/">>>>
             ELSE <<line>>
    ELSE <<line>>

\* one line of _preprocess_multiline: the lines it contributes (none or one)
preprocess_line(line) ==
    IF line # <<>>
    THEN LET first_char == UpperChar(line[1])
         IN  IF first_char \in {"E", "S"} THEN <<>>
             ELSE IF first_char = "M"
                  THEN <<IF Len(line) > 1 THEN Tail(line) ELSE <<>>>>
             ELSE IF first_char = "C"
                  THEN <<<<"/", "*">> \o Tail(line) \o <<"*", "/">>>>
             ELSE <<line>>
    ELSE <<line>>

RECURSIVE preprocess_lines(_)
preprocess_lines(ls) ==
    IF ls = <<>> THEN <<>>
    ELSE preprocess_line(Head(ls)) \o preprocess_lines(Tail(ls))

preprocess_multiline(text) == Join(preprocess_lines(Split(text, "\n")), "\n")

\* the least and the greatest element of a set of integers that is not empty
SetMin(S) == CHOOSE k \in S : \A j \in S : k <= j

SetMax(S) == CHOOSE k \in S : \A j \in S : j <= k

\* index of the first "*/" at or after i, 0 when there is none
FindClose(t, i) ==
    LET closes == {k \in i..(Len(t) - 1) : t[k] = "*" /\ t[k + 1] = "/"}
    IN  IF closes = {} THEN 0 ELSE SetMin(closes)

\* index of the first "/*" at or after i that a "*/" closes, 0 when there
\* is none
FindOpen(t, i) ==
    LET opens == {k \in i..(Len(t) - 1) :
                     t[k] = "/" /\ t[k + 1] = "*" /\ FindClose(t, k + 2) # 0}
    IN  IF opens = {} THEN 0 ELSE SetMin(opens)

\* re.sub(r'/\*.*?\*/', '', text, flags=re.DOTALL) from index i on
RECURSIVE remove_comments_from(_, _)
remove_comments_from(t, i) ==
    LET open == FindOpen(t, i)
    IN  IF open = 0 THEN SubSeq(t, i, Len(t))
        ELSE SubSeq(t, i, open - 1)
             \o remove_comments_from(t, FindClose(t, open + 2) + 2)

remove_comments(text) == remove_comments_from(text, 1)

\* number of "\n" in t[1..n]
CountNewlines(t, n) == Cardinality({k \in 1..n : t[k] = "\n"})

\* text.rfind('\n', 0, match_start) as a 1-based index, 0 when there is none
LastNewline(t, n) ==
    LET breaks == {k \in 1..n : t[k] = "\n"}
    IN  IF breaks = {} THEN 0 ELSE SetMax(breaks)

\* _find_position for the match starting at index s (source offset s - 1)
find_position(text, s) ==
    [line |-> CountNewlines(text, s - 1),
     column |-> (s - 1) - LastNewline(text, s - 1)]

-----------------------------------------------------------------------------
(* Words of the patterns *)

wPROGRAM == <<"P","R","O","G","R","A","M">>
wPROCEDURE == <<"P","R","O","C","E","D","U","R","E">>
wFUNCTION == <<"F","U","N","C","T","I","O","N">>
wTASK == <<"T","A","S","K">>
wCOMPOOL == <<"C","O","M","P","O","O","L">>
wDECLARE == <<"D","E","C","L","A","R","E">>
wINTEGER == <<"I","N","T","E","G","E","R">>
wSCALAR == <<"S","C","A","L","A","R">>
wVECTOR == <<"V","E","C","T","O","R">>
wMATRIX == <<"M","A","T","R","I","X">>
wBOOLEAN == <<"B","O","O","L","E","A","N">>
wCHARACTER == <<"C","H","A","R","A","C","T","E","R">>
wBIT == <<"B","I","T">>
wEVENT == <<"E","V","E","N","T">>
wINITIAL == <<"I","N","I","T","I","A","L">>
wARRAY == <<"A","R","R","A","Y">>
wCONSTANT == <<"C","O","N","S","T","A","N","T">>
wSTRUCTURE == <<"S","T","R","U","C","T","U","R","E">>
wREPLACE == <<"R","E","P","L","A","C","E">>
wBY == <<"B","Y">>
wLABEL == <<"L","A","B","E","L">>

\* (INTEGER|SCALAR|VECTOR|MATRIX|BOOLEAN|CHARACTER|BIT), in the order tried
FunctionTypes ==
    <<wINTEGER, wSCALAR, wVECTOR, wMATRIX, wBOOLEAN, wCHARACTER, wBIT>>

\* (INTEGER|SCALAR|VECTOR|MATRIX|BOOLEAN|CHARACTER|BIT|EVENT)
DeclareTypes == FunctionTypes \o <<wEVENT>>

-----------------------------------------------------------------------------
(* Pieces of the regular expressions.  An index of 0 is a failed match and *)
(* every piece passes it on.                                               *)

NoMatch == [end |-> 0]

\* the value v under the name of the parameter of K: LET x == v IN K(x)
Bind(v, K(_)) == K(v)

\* [F(x) for x in xs], as a list whose elements are computed once
Map(xs, F(_)) == [i \in DOMAIN xs |-> F(xs[i])] \o <<>>

\* \b at index i: between t[i-1] and t[i]
WordBoundary(t, i) ==
    LET before == i - 1 >= 1 /\ i - 1 <= Len(t) /\ IsWordChar(t[i - 1])
        after == i >= 1 /\ i <= Len(t) /\ IsWordChar(t[i])
    IN  before # after

\* [A-Z0-9_]* from i: the index just past the run
RECURSIVE WordRun(_, _)
WordRun(t, i) ==
    IF i <= Len(t) /\ IsWordChar(t[i]) THEN WordRun(t, i + 1) ELSE i

\* [A-Z_][A-Z0-9_]* at i
Ident(t, i) ==
    IF i >= 1 /\ i <= Len(t) /\ IsIdentStart(t[i]) THEN WordRun(t, i + 1) ELSE 0

\* \s* from i
RECURSIVE Spaces(_, _)
Spaces(t, i) ==
    IF i = 0 THEN 0
    ELSE IF i <= Len(t) /\ IsSpace(t[i]) THEN Spaces(t, i + 1)
    ELSE i

\* \s+ from i
Spaces1(t, i) ==
    IF i >= 1 /\ i <= Len(t) /\ IsSpace(t[i]) THEN Spaces(t, i + 1) ELSE 0

\* the literal w at i, ignoring case
Lit(t, i, w) ==
    IF i >= 1 /\ i + Len(w) - 1 <= Len(t) /\ Upper(SubSeq(t, i, i + Len(w) - 1)) = w
    THEN i + Len(w)
    ELSE 0

\* the first alternative of ws that matches at i (its index in ws), 0 if none
FirstAlt(t, i, ws) ==
    IF \E k \in DOMAIN ws : Lit(t, i, ws[k]) # 0
    THEN CHOOSE k \in DOMAIN ws :
             Lit(t, i, ws[k]) # 0 /\ \A j \in 1..(k - 1) : Lit(t, i, ws[j]) = 0
    ELSE 0

\* (w1|w2|...) at i
Alt(t, i, ws) ==
    Bind(FirstAlt(t, i, ws), LAMBDA k : IF k = 0 THEN 0 ELSE Lit(t, i, ws[k]))

\* [^c]* from i: the index of the first c at or after i, Len(t) + 1 if none
RECURSIVE Until(_, _, _)
Until(t, i, c) ==
    IF i <= Len(t) /\ t[i] # c THEN Until(t, i + 1, c) ELSE i

\* \d+ at i
RECURSIVE DigitRun(_, _)
DigitRun(t, i) ==
    IF i <= Len(t) /\ IsDigit(t[i]) THEN DigitRun(t, i + 1) ELSE i

Digits1(t, i) ==
    IF i >= 1 /\ i <= Len(t) /\ IsDigit(t[i]) THEN DigitRun(t, i + 1) ELSE 0

\* \(([^)]*)\) at i, or with min = 1 \(([^)]+)\): the index past the ")"
Paren(t, i, min) ==
    LET close == Until(t, i + 1, ")")
    IN  IF i >= 1 /\ i <= Len(t) /\ t[i] = "(" /\ close <= Len(t)
           /\ close - (i + 1) >= min
        THEN close + 1
        ELSE 0

\* (?:\(([^)]*)\))? at i: past the group when it matches, i itself otherwise
OptParen(t, i) ==
    IF i = 0 THEN 0
    ELSE Bind(Paren(t, i, 0), LAMBDA e : IF e # 0 THEN e ELSE i)

\* the text of the group of a Paren match that starts at i and ends before e
ParenText(t, i, e) == Slice(t, i + 1, e - 1)

\* the matches re.finditer keeps out of ms, where ms[k] is what the pattern
\* matches at index k: left to right from index s on, each search resuming
\* where the previous match ended
RECURSIVE Leftmost(_, _)
Leftmost(ms, s) ==
    LET starts == {k \in s..Len(ms) : ms[k].end # 0}
    IN  IF starts = {} THEN <<>>
        ELSE <<ms[SetMin(starts)]>> \o Leftmost(ms, ms[SetMin(starts)].end)

\* re.finditer: the matches of M in t from index s on
FindIter(M(_, _), t, s) == Leftmost([k \in 1..Len(t) |-> M(t, k)] \o <<>>, s)

-----------------------------------------------------------------------------
(* The patterns of the recognizer passes.  Each yields the match that      *)
(* starts at index s: [start, end, name, ...groups], or NoMatch.           *)

\* \b([A-Z_][A-Z0-9_]*) at s
NameAt(t, s) == IF WordBoundary(t, s) THEN Ident(t, s) ELSE 0

\* \b([A-Z_][A-Z0-9_]*)\s*: at s, given the end e1 of the name
ColonAfter(t, e1) == Lit(t, Spaces(t, e1), <<":">>)

\* \bDECLARE\s+ at s
DeclareAt(t, s) == IF WordBoundary(t, s) THEN Spaces1(t, Lit(t, s, wDECLARE)) ELSE 0

\* \s*; at i
Semicolon(t, i) == Lit(t, Spaces(t, i), <<";">>)

\* the match of a pattern whose only group is the name t[n:e1]
NameMatch(t, s, n, e1, e) ==
    IF e = 0 THEN NoMatch
    ELSE [start |-> s, end |-> e, name |-> Slice(t, n, e1)]

\* r'\b([A-Z_][A-Z0-9_]*)\s*:\s*w\s*;' for a unit keyword w
pattern_unit(t, s, w) ==
    Bind(NameAt(t, s), LAMBDA e1 :
        NameMatch(t, s, s, e1,
                  Semicolon(t, Lit(t, Spaces(t, ColonAfter(t, e1)), w))))

\* r'\b([A-Z_][A-Z0-9_]*)\s*:\s*PROGRAM\s*;'
pattern_program(t, s) == pattern_unit(t, s, wPROGRAM)

\* r'\b([A-Z_][A-Z0-9_]*)\s*:\s*PROCEDURE\s*(?:\(([^)]*)\))?\s*;'
pattern_procedure(t, s) ==
    Bind(NameAt(t, s), LAMBDA e1 :
    Bind(Spaces(t, Lit(t, Spaces(t, ColonAfter(t, e1)), wPROCEDURE)), LAMBDA p :
    Bind(OptParen(t, p), LAMBDA q :
    Bind(Semicolon(t, q), LAMBDA e :
        IF e = 0 THEN NoMatch
        ELSE [start |-> s, end |-> e, name |-> Slice(t, s, e1),
              has_params |-> q # p,
              params_text |-> IF q # p THEN ParenText(t, p, q) ELSE <<>>]))))

\* r'\b([A-Z_][A-Z0-9_]*)\s*:\s*(INTEGER|...|BIT)?\s*FUNCTION\s*(?:\(([^)]*)\))?\s*;'
\* pT, eT: the match with the return type; pN, eN: the match without it
pattern_function(t, s) ==
    Bind(NameAt(t, s), LAMBDA e1 :
    Bind(Spaces(t, ColonAfter(t, e1)), LAMBDA c :
    Bind(IF c = 0 THEN 0 ELSE FirstAlt(t, c, FunctionTypes), LAMBDA k :
    Bind(Spaces(t, Lit(t, Spaces(t, Alt(t, c, FunctionTypes)), wFUNCTION)), LAMBDA pT :
    Bind(Semicolon(t, OptParen(t, pT)), LAMBDA eT :
    Bind(Spaces(t, Lit(t, c, wFUNCTION)), LAMBDA pN :
    Bind(Semicolon(t, OptParen(t, pN)), LAMBDA eN :
    Bind(k # 0 /\ eT # 0, LAMBDA typed :
    Bind(IF typed THEN pT ELSE pN, LAMBDA p :
    Bind(OptParen(t, p), LAMBDA q :
    Bind(IF typed THEN eT ELSE eN, LAMBDA e :
        IF e = 0 THEN NoMatch
        ELSE [start |-> s, end |-> e, name |-> Slice(t, s, e1),
              has_type |-> typed,
              return_type |-> IF typed
                              THEN Slice(t, c, c + Len(FunctionTypes[k]))
                              ELSE <<>>,
              has_params |-> q # p,
              params_text |-> IF q # p THEN ParenText(t, p, q) ELSE <<>>])))))))))))

\* r'\b([A-Z_][A-Z0-9_]*)\s*:\s*TASK\s*;'
pattern_task(t, s) == pattern_unit(t, s, wTASK)

\* r'\b([A-Z_][A-Z0-9_]*)\s*:\s*COMPOOL\s*;'
pattern_compool(t, s) == pattern_unit(t, s, wCOMPOOL)

\* r'\bDECLARE\s+([A-Z_][A-Z0-9_]*)\s+(INTEGER|...|EVENT)\s*(?:INITIAL\s*\([^)]*\))?\s*;'
pattern_declare_simple(t, s) ==
    Bind(DeclareAt(t, s), LAMBDA n :
    Bind(Ident(t, n), LAMBDA e1 :
    Bind(Spaces1(t, e1), LAMBDA ty :
    Bind(IF ty = 0 THEN 0 ELSE FirstAlt(t, ty, DeclareTypes), LAMBDA k :
    Bind(Spaces(t, Alt(t, ty, DeclareTypes)), LAMBDA p :
    Bind(Paren(t, Spaces(t, Lit(t, p, wINITIAL)), 0), LAMBDA i :
    Bind(Semicolon(t, IF i # 0 THEN i ELSE p), LAMBDA e :
        IF e = 0 THEN NoMatch
        ELSE [start |-> s, end |-> e, name |-> Slice(t, n, e1),
              data_type |-> Slice(t, ty, ty + Len(DeclareTypes[k]))])))))))

\* r'\bDECLARE\s+([A-Z_][A-Z0-9_]*)\s+ARRAY\s*\(([^)]+)\)\s+(INTEGER|...|BIT)\s*;'
pattern_declare_array(t, s) ==
    Bind(DeclareAt(t, s), LAMBDA n :
    Bind(Ident(t, n), LAMBDA e1 :
    Bind(Spaces(t, Lit(t, Spaces1(t, e1), wARRAY)), LAMBDA p :
    Bind(Paren(t, p, 1), LAMBDA q :
    Bind(Spaces1(t, q), LAMBDA ty :
    Bind(IF ty = 0 THEN 0 ELSE FirstAlt(t, ty, FunctionTypes), LAMBDA k :
    Bind(Semicolon(t, Alt(t, ty, FunctionTypes)), LAMBDA e :
        IF e = 0 THEN NoMatch
        ELSE [start |-> s, end |-> e, name |-> Slice(t, n, e1),
              dims |-> ParenText(t, p, q),
              data_type |-> Slice(t, ty, ty + Len(FunctionTypes[k]))])))))))

\* r'\bDECLARE\s+([A-Z_][A-Z0-9_]*)\s+CONSTANT\s*\(([^)]+)\)\s*;'
pattern_declare_constant(t, s) ==
    Bind(DeclareAt(t, s), LAMBDA n :
    Bind(Ident(t, n), LAMBDA e1 :
    Bind(Spaces(t, Lit(t, Spaces1(t, e1), wCONSTANT)), LAMBDA p :
    Bind(Paren(t, p, 1), LAMBDA q :
    Bind(Semicolon(t, q), LAMBDA e :
        IF e = 0 THEN NoMatch
        ELSE [start |-> s, end |-> e, name |-> Slice(t, n, e1),
              value |-> ParenText(t, p, q)])))))

\* r'\bDECLARE\s+([A-Z_][A-Z0-9_]*)\s+VECTOR\s*\((\d+)\)\s*;'
pattern_declare_vector(t, s) ==
    Bind(DeclareAt(t, s), LAMBDA n :
    Bind(Ident(t, n), LAMBDA e1 :
    Bind(Lit(t, Spaces(t, Lit(t, Spaces1(t, e1), wVECTOR)), <<"(">>), LAMBDA p :
    Bind(Digits1(t, p), LAMBDA d :
    Bind(Semicolon(t, Lit(t, d, <<")">>)), LAMBDA e :
        IF e = 0 THEN NoMatch
        ELSE [start |-> s, end |-> e, name |-> Slice(t, n, e1),
              size |-> Slice(t, p, d)])))))

\* r'\bDECLARE\s+([A-Z_][A-Z0-9_]*)\s+MATRIX\s*\((\d+)\s*,\s*(\d+)\)\s*;'
pattern_declare_matrix(t, s) ==
    Bind(DeclareAt(t, s), LAMBDA n :
    Bind(Ident(t, n), LAMBDA e1 :
    Bind(Lit(t, Spaces(t, Lit(t, Spaces1(t, e1), wMATRIX)), <<"(">>), LAMBDA p :
    Bind(Digits1(t, p), LAMBDA d1 :
    Bind(Spaces(t, Lit(t, Spaces(t, d1), <<",">>)), LAMBDA p2 :
    Bind(Digits1(t, p2), LAMBDA d2 :
    Bind(Semicolon(t, Lit(t, d2, <<")">>)), LAMBDA e :
        IF e = 0 THEN NoMatch
        ELSE [start |-> s, end |-> e, name |-> Slice(t, n, e1),
              rows |-> Slice(t, p, d1), cols |-> Slice(t, p2, d2)])))))))

\* r'\bDECLARE\s+([A-Z_][A-Z0-9_]*)\s+STRUCTURE\s*;'
pattern_structure(t, s) ==
    Bind(DeclareAt(t, s), LAMBDA n :
    Bind(Ident(t, n), LAMBDA e1 :
        NameMatch(t, s, n, e1,
                  Semicolon(t, Lit(t, Spaces1(t, e1), wSTRUCTURE)))))

\* r'\bREPLACE\s+([A-Z_][A-Z0-9_]*)\s+BY\s+"([^"]+)"\s*;'
pattern_replace(t, s) ==
    Bind(IF WordBoundary(t, s) THEN Spaces1(t, Lit(t, s, wREPLACE)) ELSE 0, LAMBDA n :
    Bind(Ident(t, n), LAMBDA e1 :
    Bind(Lit(t, Spaces1(t, Lit(t, Spaces1(t, e1), wBY)), <<"\"">>), LAMBDA p :
    Bind(Until(t, p, "\""), LAMBDA q :
    Bind(IF p # 0 /\ q <= Len(t) /\ q > p THEN Semicolon(t, q + 1) ELSE 0, LAMBDA e :
        IF e = 0 THEN NoMatch
        ELSE [start |-> s, end |-> e, name |-> Slice(t, n, e1),
              replacement |-> Slice(t, p, q)])))))

\* r'\b([A-Z_][A-Z0-9_]*)\s*:'
pattern_label(t, s) ==
    Bind(NameAt(t, s), LAMBDA e1 : NameMatch(t, s, s, e1, ColonAfter(t, e1)))

\* r'\b([A-Z_][A-Z0-9_]*)\b'
pattern_identifier(t, s) ==
    Bind(NameAt(t, s), LAMBDA e1 :
        IF e1 = 0 \/ ~WordBoundary(t, e1) THEN NoMatch
        ELSE [start |-> s, end |-> e1, name |-> Slice(t, s, e1)])
-----------------------------------------------------------------------------
(* Symbols.  self.symbols is a dict: a sequence of Symbol records in the   *)
(* order their keys were first inserted, at most one per name.  A Symbol   *)
(* keeps the fields the passes set; end_line, end_column and scope always  *)
(* hold their defaults.  data_type is a string (a sequence of characters); *)
(* documentation is an f-string kept as the tuple of its pieces.           *)

Symbol(name, kind, data_type, pos, documentation, parameters, dimensions) ==
    [name |-> name, kind |-> kind, data_type |-> data_type,
     line |-> pos.line, column |-> pos.column,
     documentation |-> documentation,
     parameters |-> parameters, dimensions |-> dimensions]

\* name in self.symbols
HasSymbol(symbols, name) == \E i \in DOMAIN symbols : symbols[i].name = name

\* self.symbols[name]
SymbolOf(symbols, name) ==
    symbols[CHOOSE i \in DOMAIN symbols : symbols[i].name = name]

\* Put as self.symbols.setdefault(sym.name, sym): the first write wins
Put_first(symbols, sym) ==
    IF HasSymbol(symbols, sym.name) THEN symbols ELSE Append(symbols, sym)

\* self.symbols[sym.name] = sym: a new key goes last, a known key keeps its place
Put(symbols, sym) ==
    IF HasSymbol(symbols, sym.name)
    THEN [i \in DOMAIN symbols |->
            IF symbols[i].name = sym.name THEN sym ELSE symbols[i]] \o <<>>
    ELSE Append(symbols, sym)

\* the loop of one pass: the symbols of its matches stored in match order
RECURSIVE StoreAll(_, _)
StoreAll(symbols, syms) ==
    IF syms = <<>> THEN symbols
    ELSE StoreAll(Put(symbols, Head(syms)), Tail(syms))

\* [p.strip() for p in s.split(',')]
StripAll(parts) == [i \in DOMAIN parts |-> Strip(parts[i])] \o <<>>

\* params = [] ; if params_text: params = [p.strip() for p in params_text.split(',')]
ParamsOf(m) ==
    IF m.has_params /\ m.params_text # <<>>
    THEN StripAll(Split(m.params_text, ","))
    ELSE <<>>

-----------------------------------------------------------------------------
(* What each recognizer pass finds in a cleaned text: the Symbol it builds  *)
(* for each match of its pattern, in match order.                          *)

\* the Symbol of a match whose kind, type and documentation are fixed
PlainSymbol(text, m, kind, data_type, documentation) ==
    Symbol(Upper(m.name), kind, data_type, find_position(text, m.start),
           <<documentation>>, <<>>, <<>>)

found_programs(text) ==
    Map(FindIter(pattern_program, text, 1), LAMBDA m :
        PlainSymbol(text, m, "program", wPROGRAM, "HAL/S Program unit"))

found_procedures(text) ==
    Map(FindIter(pattern_procedure, text, 1), LAMBDA m :
        Bind(ParamsOf(m), LAMBDA params :
            Symbol(Upper(m.name), "procedure", wPROCEDURE,
                   find_position(text, m.start),
                   IF params # <<>>
                   THEN <<"Procedure with ", Len(params), " parameters">>
                   ELSE <<"Procedure">>,
                   params, <<>>)))

\* return_type = match.group(2) or "SCALAR"
ReturnTypeOf(m) == IF m.has_type THEN m.return_type ELSE wSCALAR

found_functions(text) ==
    Map(FindIter(pattern_function, text, 1), LAMBDA m :
        Bind(Upper(ReturnTypeOf(m)), LAMBDA return_type :
            Symbol(Upper(m.name), "function",
                   return_type \o <<" ">> \o wFUNCTION,
                   find_position(text, m.start),
                   <<"Function returning ", return_type>>,
                   ParamsOf(m), <<>>)))

found_tasks(text) ==
    Map(FindIter(pattern_task, text, 1), LAMBDA m :
        PlainSymbol(text, m, "task", wTASK,
                    "Real-time task (schedulable process)"))

found_compools(text) ==
    Map(FindIter(pattern_compool, text, 1), LAMBDA m :
        PlainSymbol(text, m, "compool", wCOMPOOL,
                    "Communication pool (shared data)"))

found_declares_simple(text) ==
    Map(FindIter(pattern_declare_simple, text, 1), LAMBDA m :
        Bind(Upper(m.data_type), LAMBDA data_type :
            Symbol(Upper(m.name), "variable", data_type,
                   find_position(text, m.start),
                   <<data_type, " variable">>, <<>>, <<>>)))

found_declares_array(text) ==
    Map(FindIter(pattern_declare_array, text, 1), LAMBDA m :
        Bind(Upper(m.data_type), LAMBDA elem_type :
            Symbol(Upper(m.name), "variable",
                   wARRAY \o <<"(">> \o m.dims \o <<")", " ">> \o elem_type,
                   find_position(text, m.start),
                   <<"Array of ", elem_type, " with dimensions (", m.dims, ")">>,
                   <<>>, StripAll(Split(m.dims, ",")))))

found_declares_constant(text) ==
    Map(FindIter(pattern_declare_constant, text, 1), LAMBDA m :
        Symbol(Upper(m.name), "constant", wCONSTANT,
               find_position(text, m.start),
               <<"Constant = ", m.value>>, <<>>, <<>>))

found_declares_vector(text) ==
    Map(FindIter(pattern_declare_vector, text, 1), LAMBDA m :
        Symbol(Upper(m.name), "variable",
               wVECTOR \o <<"(">> \o m.size \o <<")">>,
               find_position(text, m.start),
               <<"Vector of ", m.size, " elements">>,
               <<>>, <<m.size>>))

found_declares_matrix(text) ==
    Map(FindIter(pattern_declare_matrix, text, 1), LAMBDA m :
        Symbol(Upper(m.name), "variable",
               wMATRIX \o <<"(">> \o m.rows \o <<",">> \o m.cols \o <<")">>,
               find_position(text, m.start),
               <<"Matrix of ", m.rows, "x", m.cols, " elements">>,
               <<>>, <<m.rows, m.cols>>))

found_structures(text) ==
    Map(FindIter(pattern_structure, text, 1), LAMBDA m :
        PlainSymbol(text, m, "structure", wSTRUCTURE, "Structure type"))

found_replaces(text) ==
    Map(FindIter(pattern_replace, text, 1), LAMBDA m :
        Symbol(Upper(m.name), "replace", wREPLACE,
               find_position(text, m.start),
               <<"Macro expanding to: ", m.replacement>>, <<>>, <<>>))

\* the program unit keywords the label pass looks for after the colon
UnitWords == {wPROGRAM, wPROCEDURE, wFUNCTION, wTASK, wCOMPOOL}

\* the width of the lookahead text[match.end():match.end()+20]
LabelLookahead == 20

\* after = text[match.end():match.end()+20].strip().upper()
AfterLabel(text, m) ==
    Upper(Strip(SubSeq(text, m.end,
                       IF m.end + LabelLookahead - 1 <= Len(text)
                       THEN m.end + LabelLookahead - 1 ELSE Len(text))))

\* for each match of the label pattern, in match order: whether a program
\* unit keyword follows the colon, and the Symbol the pass would store
found_labels(text) ==
    Map(FindIter(pattern_label, text, 1), LAMBDA m :
        [unit_follows |->
             Bind(AfterLabel(text, m), LAMBDA after :
                 \E w \in UnitWords : StartsWith(after, w)),
         symbol |->
             PlainSymbol(text, m, "label", wLABEL,
                         "Statement label (GO TO target)")])

\* Reference(name=name.upper(), line=line, column=col, end_column=col + len(name))
ReferenceOf(text, m) ==
    Bind(find_position(text, m.start), LAMBDA pos :
        [name |-> Upper(m.name), line |-> pos.line, column |-> pos.column,
         end_column |-> pos.column + Len(m.name)])

\* the matches of the identifier pattern that are no keywords
NonKeywords(text) ==
    SelectSeq(FindIter(pattern_identifier, text, 1),
              LAMBDA m : Upper(m.name) \notin KEYWORDS)

\* found_references that takes the name after DECLARE or REPLACE for a
\* definition and not for a reference
found_references_uses(text) ==
    Map(SelectSeq(NonKeywords(text),
                  LAMBDA m : ~\E w \in {wDECLARE, wREPLACE} :
                                 \E s \in 1..m.start :
                                     Spaces1(text, Lit(text, s, w)) = m.start),
        LAMBDA m : ReferenceOf(text, m))

\* found_references that skips a name it has recorded before
found_references_once(text) ==
    Bind(NonKeywords(text), LAMBDA ms :
        Map(SelectSeq([i \in DOMAIN ms |-> [i |-> i, m |-> ms[i]]],
                      LAMBDA x : \A j \in 1..(x.i - 1) :
                                     Upper(ms[j].name) # Upper(x.m.name)),
            LAMBDA x : ReferenceOf(text, x.m)))

\* the Reference built for each match of the identifier pattern that is no
\* keyword, in match order
found_references(text) ==
    Map(NonKeywords(text), LAMBDA m : ReferenceOf(text, m))

\* everything the passes find in one cleaned text
AllFound(text) ==
    [program |-> found_programs(text),
     procedure |-> found_procedures(text),
     function |-> found_functions(text),
     task |-> found_tasks(text),
     compool |-> found_compools(text),
     declare_simple |-> found_declares_simple(text),
     declare_array |-> found_declares_array(text),
     declare_constant |-> found_declares_constant(text),
     declare_vector |-> found_declares_vector(text),
     declare_matrix |-> found_declares_matrix(text),
     structure |-> found_structures(text),
     replace |-> found_replaces(text),
     label |-> found_labels(text),
     reference |-> found_references(text)]
-----------------------------------------------------------------------------
(* The documents of the model.                                             *)

NL == <<"\n">>

\* one declaration of X for each of the twelve overwriting passes, in pass order
DeclX ==
    << <<"X",":","P","R","O","G","R","A","M",";">>,
       <<"X",":","P","R","O","C","E","D","U","R","E",";">>,
       <<"X",":","F","U","N","C","T","I","O","N",";">>,
       <<"X",":","T","A","S","K",";">>,
       <<"X",":","C","O","M","P","O","O","L",";">>,
       <<"D","E","C","L","A","R","E"," ","X"," ","B","I","T",";">>,
       <<"D","E","C","L","A","R","E"," ","X"," ","A","R","R","A","Y","(","2",")"," ","B","I","T",";">>,
       <<"D","E","C","L","A","R","E"," ","X"," ","C","O","N","S","T","A","N","T","(","1",")",";">>,
       <<"D","E","C","L","A","R","E"," ","X"," ","V","E","C","T","O","R","(","3",")",";">>,
       <<"D","E","C","L","A","R","E"," ","X"," ","M","A","T","R","I","X","(","3",",","3",")",";">>,
       <<"D","E","C","L","A","R","E"," ","X"," ","S","T","R","U","C","T","U","R","E",";">>,
       <<"R","E","P","L","A","C","E"," ","X"," ","B","Y"," ","\"","1","\"",";">> >>

\* one or two declarations of X, one per line, in either textual order
DeclTexts ==
    Range(DeclX) \cup { a \o NL \o b : a, b \in Range(DeclX) }

\* a declaration of X, a declaration of Y by a later pass and a declaration
\* of X by a still later pass, the first on a line of its own or not
OrderTexts ==
    { a \o sep \o b \o c :
        a \in { <<"X",":","T","A","S","K",";">>, <<"D","E","C","L","A","R","E"," ","X"," ","B","I","T",";">> },
        sep \in { <<>>, NL },
        b \in { <<"D","E","C","L","A","R","E"," ","Y"," ","A","R","R","A","Y","(","2",")"," ","B","I","T",";">>, <<"D","E","C","L","A","R","E"," ","Y"," ","C","O","N","S","T","A","N","T","(","1",")",";">> },
        c \in { <<"D","E","C","L","A","R","E"," ","X"," ","V","E","C","T","O","R","(","3",")",";">>, <<"R","E","P","L","A","C","E"," ","X"," ","B","Y"," ","\"","1","\"",";">> } }
    \cup
    { <<"Y",":","T","A","S","K",";","\n","X",":","P","R","O","G","R","A","M",";">>,
      <<"Y",":","T","A","S","K",";","X",":","P","R","O","G","R","A","M",";">>,
      <<"D","E","C","L","A","R","E"," ","Y"," ","B","I","T",";","Y",":","T","A","S","K",";","X",":","T","A","S","K",";">> }

\* lines that exercise the continuation markup, the comments and the letter case
MarkupLines ==
    { <<>>,
      <<"E"," ","X",":">>,
      <<"M"," ","y",":">>,
      <<"C","*","/","X",":">>,
      <<"/","*","X">>,
      <<"*","/"," ","Z",":">>,
      <<"X",":","T","A","S","K",";">> }

MarkupTexts ==
    MarkupLines \cup { a \o NL \o b : a, b \in MarkupLines }
                \cup { <<"S","\n","/","*","X","\n","*","/"," ","Z",":">> }

\* labels, the lookahead after the colon, names that are keywords, and
\* identifiers next to digits and operators
LabelTexts ==
    { <<"N","A","V",":","\n","G","O"," ","T","O"," ","N","A","V",";">>,
      <<"X",":"," "," "," "," "," "," "," "," "," "," "," "," "," ","P","R","O","G","R","A","M">>,
      <<"X",":"," "," "," "," "," "," "," "," "," "," "," "," "," "," ","P","R","O","G","R","A","M">>,
      <<"X",":","\n"," ","y",":"," ","X",":">>,
      <<"X",":"," ","Y",":","T","A","S","K",";">>,
      <<"I","F",":"," ","X">>,
      <<"D","E","C","L","A","R","E"," ","T","A","S","K"," ","B","I","T",";">>,
      <<"F",":","B","I","T"," ","F","U","N","C","T","I","O","N","(","A",","," ","b",")",";">>,
      <<"A","=","3","B","+","_","c","9",";">> }

Texts == DeclTexts \cup OrderTexts \cup MarkupTexts \cup LabelTexts

-----------------------------------------------------------------------------
(* Tables over the documents of the model.  Preprocessing and pattern      *)
(* matching depend on the text alone; their results for the documents of   *)
(* the model are tabulated once and looked up, and computed directly for   *)
(* any other text.                                                         *)

\* table[key] when the table has the key, otherwise the value computed
Lookup(table, key, computed) ==
    IF key \in DOMAIN table THEN table[key] ELSE computed

CleanedTable ==
    [t \in Texts |-> remove_comments(preprocess_multiline(t))] @@ <<>>

\* cleaned_text = self._remove_comments(self._preprocess_multiline(text))
Cleaned(text) ==
    Lookup(CleanedTable, text, remove_comments(preprocess_multiline(text)))

FoundTable == [c \in Range(CleanedTable) |-> AllFound(c)] @@ <<>>

\* the matches of every pass in a cleaned text
Found(text) == Lookup(FoundTable, text, AllFound(text))

RawLines == UNION { Range(Split(t, "\n")) : t \in Texts }

WordsTable ==
    [l \in RawLines |-> FindIter(pattern_identifier, l, 1)] @@ <<>>

\* re.finditer(r'\b([A-Z_][A-Z0-9_]*)\b', line_text, re.IGNORECASE)
Words(line_text) ==
    Lookup(WordsTable, line_text, FindIter(pattern_identifier, line_text, 1))

-----------------------------------------------------------------------------
(* The recognizer passes.  A pass takes the symbol table and what the      *)
(* patterns match in the cleaned text (found, computed once per parse),    *)
(* and yields the symbol table after the pass.                             *)

parse_programs(symbols, found) == StoreAll(symbols, found.program)

parse_procedures(symbols, found) == StoreAll(symbols, found.procedure)

parse_functions(symbols, found) == StoreAll(symbols, found.function)

parse_tasks(symbols, found) == StoreAll(symbols, found.task)

parse_compools(symbols, found) == StoreAll(symbols, found.compool)

\* the five loops of _parse_declares, in order
parse_declares(symbols, found) ==
    StoreAll(
        StoreAll(
            StoreAll(
                StoreAll(
                    StoreAll(symbols, found.declare_simple),
                    found.declare_array),
                found.declare_constant),
            found.declare_vector),
        found.declare_matrix)

parse_structures(symbols, found) == StoreAll(symbols, found.structure)

parse_replaces(symbols, found) == StoreAll(symbols, found.replace)

\* the loop of _parse_labels without the test name.upper() in self.symbols
RECURSIVE store_labels_overriding(_, _)
store_labels_overriding(symbols, ms) ==
    IF ms = <<>> THEN symbols
    ELSE IF Head(ms).unit_follows
    THEN store_labels_overriding(symbols, Tail(ms))
    ELSE store_labels_overriding(Put(symbols, Head(ms).symbol), Tail(ms))

\* the loop of _parse_labels over the label matches ms
RECURSIVE store_labels(_, _)
store_labels(symbols, ms) ==
    IF ms = <<>> THEN symbols
    ELSE IF Head(ms).unit_follows
    THEN store_labels(symbols, Tail(ms))
    ELSE IF HasSymbol(symbols, Head(ms).symbol.name)
    THEN store_labels(symbols, Tail(ms))
    ELSE store_labels(Put(symbols, Head(ms).symbol), Tail(ms))

parse_labels(symbols, found) == store_labels(symbols, found.label)

\* self.references after _parse_references
parse_references(references, found) == references \o found.reference

-----------------------------------------------------------------------------
(* HALSParser *)

\* the fields after __init__
ParserInit ==
    [symbols |-> <<>>, references |-> <<>>, diagnostics |-> <<>>, lines |-> <<>>]

\* reset without the assignment self.symbols = {}
reset_keep(self, text) ==
    [symbols |-> self.symbols, references |-> <<>>, diagnostics |-> <<>>,
     lines |-> Split(text, "\n")]

\* the fields after the assignments that open parse
reset(self, text) ==
    [symbols |-> <<>>, references |-> <<>>, diagnostics |-> <<>>,
     lines |-> Split(text, "\n")]

\* the nine pass calls of parse, in order
run_passes(symbols, found) ==
    parse_labels(
      parse_replaces(
        parse_structures(
          parse_declares(
            parse_compools(
              parse_tasks(
                parse_functions(
                  parse_procedures(
                    parse_programs(symbols, found),
                    found),
                  found),
                found),
              found),
            found),
          found),
        found),
      found)

\* the Diagnostics of a parse that reports every declaration of a name
\* that an earlier declaration, in pass order, has written
Duplicates(found) ==
    Bind(found.program \o found.procedure \o found.function
             \o found.task \o found.compool \o found.declare_simple
             \o found.declare_array \o found.declare_constant
             \o found.declare_vector \o found.declare_matrix
             \o found.structure \o found.replace,
         LAMBDA all :
             Map(SelectSeq([i \in DOMAIN all |-> [i |-> i, sym |-> all[i]]],
                           LAMBDA x : \E j \in 1..(x.i - 1) :
                                          all[j].name = x.sym.name),
                 LAMBDA x :
                     [line |-> x.sym.line, column |-> x.sym.column,
                      end_column |-> x.sym.column + Len(x.sym.name),
                      message |-> <<"Duplicate definition: ", x.sym.name>>,
                      severity |-> "warning"]))

\* parse that records a Diagnostic for every duplicate declaration
parse_reporting(self, text) ==
    Bind(Found(Cleaned(text)), LAMBDA found :
        [reset(self, text) EXCEPT
            !.symbols = run_passes(@, found),
            !.references = parse_references(@, found),
            !.diagnostics = Duplicates(found)])

\* parse(text) on the parser self: the fields after the call; found is
\* what the patterns match in cleaned_text
parse(self, text) ==
    Bind(Found(Cleaned(text)), LAMBDA found :
        [reset(self, text) EXCEPT
            !.symbols = run_passes(@, found),
            !.references = parse_references(@, found)])
-----------------------------------------------------------------------------
(* Queries.  A return value is a record tagged by its type; a raised       *)
(* exception is a return value of type "raise".                            *)

None == [type |-> "None"]

Raise(exc) == [type |-> "raise", exc |-> exc]

List(items) == [type |-> "list", items |-> items]

\* whether lines[line] raises IndexError
IndexFails(lines, line) == line >= Len(lines) \/ line < 0 - Len(lines)

\* lines[line] when it does not raise: a negative index counts from the end
Index(lines, line) ==
    IF line >= 0 THEN lines[line + 1] ELSE lines[Len(lines) + line + 1]

\* the first match m of ms with match.start() <= column <= match.end(),
\* NoMatch when there is none
FirstHit(ms, column) ==
    LET hit(m) == m.start - 1 <= column /\ column <= m.end - 1
    IN  IF \E i \in DOMAIN ms : hit(ms[i])
        THEN ms[CHOOSE i \in DOMAIN ms :
                    hit(ms[i]) /\ \A j \in 1..(i - 1) : ~hit(ms[j])]
        ELSE NoMatch

\* the match the loop over re.finditer stops at
word_at(line_text, column) == FirstHit(Words(line_text), column)

\* the opening of get_hover, get_definition and get_references_at: nothing
\* (the value none) for a line at or past the end, IndexError for
\* self.lines[line] of a line before the first, else what the loop over the
\* words of the line gives for the match under the cursor
AtCursor(self, line, column, none, Answer(_)) ==
    IF line >= Len(self.lines) THEN none
    ELSE IF IndexFails(self.lines, line) THEN Raise("IndexError")
    ELSE Bind(word_at(Index(self.lines, line), column), LAMBDA m :
             IF m.end = 0 THEN none ELSE Answer(Upper(m.name)))

get_diagnostics(self) == self.diagnostics

\* the completion entry of a keyword, and of a symbol
KeywordItem(kw) ==
    [label |-> kw, kind |-> "keyword", detail |-> <<"HAL/S keyword">>,
     documentation |-> <<"HAL/S keyword: ", kw>>]

SymbolItem(sym) ==
    [label |-> sym.name, kind |-> sym.kind, detail |-> sym.data_type,
     documentation |-> sym.documentation]

\* get_completions that keeps the entries whose label begins with the word
\* under the cursor
get_completions_prefix(self, line, column) ==
    Bind(IF line >= 0 /\ line < Len(self.lines)
         THEN word_at(self.lines[line + 1], column) ELSE NoMatch,
         LAMBDA m :
             List(SelectSeq(Map(SortedKeywords, KeywordItem)
                                \o Map(self.symbols, SymbolItem),
                            LAMBDA c : m.end = 0
                                       \/ StartsWith(c.label, Upper(m.name)))))

get_completions(self, line, column) ==
    List(Map(SortedKeywords, KeywordItem) \o Map(self.symbols, SymbolItem))

\* get_hover that looks the word up in the symbol table first
get_hover_symbol_first(self, line, column) ==
    AtCursor(self, line, column, None, LAMBDA word :
        IF HasSymbol(self.symbols, word)
        THEN Bind(SymbolOf(self.symbols, word), LAMBDA sym :
                 [type |-> "hover",
                  contents |-> <<"**", sym.name, "**: ", sym.data_type,
                                 "\n\n", sym.documentation>>])
        ELSE IF word \in KEYWORDS
        THEN [type |-> "hover",
              contents |-> <<"**", word, "**\n\nHAL/S keyword">>]
        ELSE None)

get_hover(self, line, column) ==
    AtCursor(self, line, column, None, LAMBDA word :
        IF word \in KEYWORDS
        THEN [type |-> "hover",
              contents |-> <<"**", word, "**\n\nHAL/S keyword">>]
        ELSE IF HasSymbol(self.symbols, word)
        THEN Bind(SymbolOf(self.symbols, word), LAMBDA sym :
                 [type |-> "hover",
                  contents |-> <<"**", sym.name, "**: ", sym.data_type,
                                 "\n\n", sym.documentation>>])
        ELSE None)

get_definition(self, line, column) ==
    AtCursor(self, line, column, None, LAMBDA word :
        IF HasSymbol(self.symbols, word)
        THEN Bind(SymbolOf(self.symbols, word), LAMBDA sym :
                 [type |-> "definition", line |-> sym.line,
                  column |-> sym.column, name |-> sym.name])
        ELSE None)

get_references_at(self, line, column) ==
    AtCursor(self, line, column, List(<<>>), LAMBDA target_word :
        List(Map(SelectSeq(self.references,
                           LAMBDA ref : ref.name = target_word),
                 LAMBDA ref : [line |-> ref.line, column |-> ref.column,
                               end_column |-> ref.end_column])))

\* an insertion that puts x before the elements of its line
RECURSIVE InsertByLine_unstable(_, _)
InsertByLine_unstable(sorted, x) ==
    IF sorted = <<>> THEN <<x>>
    ELSE IF Head(sorted).line < x.line
    THEN <<Head(sorted)>> \o InsertByLine_unstable(Tail(sorted), x)
    ELSE <<x>> \o sorted

\* sorted(xs, key=lambda x: x['line']): a stable sort, here by insertion
RECURSIVE InsertByLine(_, _)
InsertByLine(sorted, x) ==
    IF sorted = <<>> THEN <<x>>
    ELSE IF Head(sorted).line <= x.line
    THEN <<Head(sorted)>> \o InsertByLine(Tail(sorted), x)
    ELSE <<x>> \o sorted

RECURSIVE SortedByLine(_)
SortedByLine(xs) ==
    IF xs = <<>> THEN <<>>
    ELSE InsertByLine(SortedByLine(SubSeq(xs, 1, Len(xs) - 1)), xs[Len(xs)])

get_document_symbols(self) ==
    List(SortedByLine(Map(self.symbols, LAMBDA sym :
             [name |-> sym.name, kind |-> sym.kind, detail |-> sym.data_type,
              line |-> sym.line, column |-> sym.column])))
-----------------------------------------------------------------------------
(* The parser as a state machine: one HALSParser, its parse operation and  *)
(* its queries called in any order with any arguments.                     *)

VARIABLES
    symbols,      \* HALSParser.symbols
    references,   \* HALSParser.references
    diagnostics,  \* HALSParser.diagnostics
    lines,        \* HALSParser.lines
    call,         \* the parser operation called most recently
    result,       \* the value it returned
    documents,    \* HALSLanguageServer.documents
    running,      \* HALSLanguageServer.running
    outbox,       \* the messages sent while the latest message was handled
    message,      \* what _read_message returned last
    parses,       \* the texts given to self.parser.parse for that message
    eof           \* sys.stdin is at its end

parser_vars == <<symbols, references, diagnostics, lines>>

server_vars == <<documents, running, outbox, message, parses, eof>>

vars ==
    <<symbols, references, diagnostics, lines, call, result,
      documents, running, outbox, message, parses, eof>>

\* the largest line and column of a query cursor
MaxLine == 2
MaxColumn == 9

CursorLines == (0 - MaxLine - 1)..MaxLine
CursorColumns == (0 - 1)..MaxColumn

\* the parser object
Self ==
    [symbols |-> symbols, references |-> references,
     diagnostics |-> diagnostics, lines |-> lines]

\* a HALSParser after __init__, inside a HALSLanguageServer after __init__
Init ==
    /\ symbols = ParserInit.symbols
    /\ references = ParserInit.references
    /\ diagnostics = ParserInit.diagnostics
    /\ lines = ParserInit.lines
    /\ call = "__init__"
    /\ result = None
    /\ documents = [uri \in {} |-> <<>>]
    /\ running = TRUE
    /\ outbox = <<>>
    /\ message = None
    /\ parses = <<>>
    /\ eof = FALSE

Parse(text) ==
    /\ \E new \in {parse(Self, text)} :
           /\ symbols' = new.symbols
           /\ references' = new.references
           /\ diagnostics' = new.diagnostics
           /\ lines' = new.lines
    /\ call' = "parse"
    /\ result' = None
    /\ UNCHANGED server_vars

GetDiagnostics ==
    /\ call' = "get_diagnostics"
    /\ result' = List(get_diagnostics(Self))
    /\ UNCHANGED <<parser_vars, server_vars>>

GetCompletions(line, column) ==
    /\ call' = "get_completions"
    /\ result' = get_completions(Self, line, column)
    /\ UNCHANGED <<parser_vars, server_vars>>

GetHover(line, column) ==
    /\ call' = "get_hover"
    /\ result' = get_hover(Self, line, column)
    /\ UNCHANGED <<parser_vars, server_vars>>

GetDefinition(line, column) ==
    /\ call' = "get_definition"
    /\ result' = get_definition(Self, line, column)
    /\ UNCHANGED <<parser_vars, server_vars>>

GetReferencesAt(line, column) ==
    /\ call' = "get_references_at"
    /\ result' = get_references_at(Self, line, column)
    /\ UNCHANGED <<parser_vars, server_vars>>

\* get_document_symbols that sorts the symbol table itself
GetDocumentSymbols_inplace ==
    /\ call' = "get_document_symbols"
    /\ result' = get_document_symbols(Self)
    /\ symbols' = SortedByLine(symbols)
    /\ UNCHANGED <<references, diagnostics, lines, server_vars>>

GetDocumentSymbols ==
    /\ call' = "get_document_symbols"
    /\ result' = get_document_symbols(Self)
    /\ UNCHANGED <<parser_vars, server_vars>>

\* the names of the query operations
Queries ==
    {"get_diagnostics", "get_completions", "get_hover", "get_definition",
     "get_references_at", "get_document_symbols"}

Next ==
    \/ \E text \in Texts : Parse(text)
    \/ GetDiagnostics
    \/ \E line \in CursorLines, column \in CursorColumns :
           GetCompletions(line, column)
    \/ \E line \in CursorLines, column \in CursorColumns :
           GetHover(line, column)
    \/ \E line \in CursorLines, column \in CursorColumns :
           GetDefinition(line, column)
    \/ \E line \in CursorLines, column \in CursorColumns :
           GetReferencesAt(line, column)
    \/ GetDocumentSymbols

Spec == Init /\ [][Next]_vars

-----------------------------------------------------------------------------
(* HALSLanguageServer.  A step of the server is one turn of the loop of    *)
(* start: a message is read, dispatched to its handler, and the messages   *)
(* the handler sends and the response are written, before the next read.   *)

\* a message id: None when the message has none
Id(n) == [type |-> "int", value |-> n]

\* self._send_notification(method, params)
send_notification(method, params) ==
    [jsonrpc |-> "2.0", method |-> method, params |-> params]

\* self._log(message)
log(text) ==
    send_notification("window/logMessage",
                      [type |-> 3, message |-> <<"[HAL/S] ">> \o text])

\* the server object
Server == [parser |-> Self, documents |-> documents, running |-> running]

\* self.documents[uri] = text
SetItem(docs, uri, text) ==
    [u \in DOMAIN docs \cup {uri} |-> IF u = uri THEN text ELSE docs[u]] @@ <<>>

\* del self.documents[uri]
DelItem(docs, uri) == [u \in DOMAIN docs \ {uri} |-> docs[u]] @@ <<>>

\* what a handler leaves: the server, the notifications it sent, the value
\* it returned (or the exception it raised), the parser operation it
\* called last with the value of that call, and the texts it had parsed
Outcome(server, sent, ret, op, answer) ==
    [server |-> server, sent |-> sent, result |-> ret,
     call |-> op, answer |-> answer, parses |-> <<>>]

InitializeResult ==
    [type |-> "initialize",
     capabilities |->
         [textDocumentSync |->
              [openClose |-> TRUE, change |-> 1,
               save |-> [includeText |-> TRUE]],
          completionProvider |->
              [triggerCharacters |-> <<".", ":", " ">>,
               resolveProvider |-> FALSE],
          hoverProvider |-> TRUE,
          definitionProvider |-> TRUE,
          referencesProvider |-> TRUE,
          documentSymbolProvider |-> TRUE],
     serverInfo |-> [name |-> "HAL/S Language Server", version |-> "1.0.0"]]

handle_initialize(srv) == Outcome(srv, <<>>, InitializeResult, call, result)

handle_initialized(srv) ==
    Outcome(srv,
            <<log(<<"HAL/S Language Server ready - NASA Space Shuttle flight software language">>)>>,
            None, call, result)

\* _handle_shutdown that ends the loop as _handle_exit does
handle_shutdown_stops(srv) ==
    Outcome([srv EXCEPT !.running = FALSE], <<>>, None, call, result)

handle_shutdown(srv) == Outcome(srv, <<>>, None, call, result)

handle_exit(srv) ==
    Outcome([srv EXCEPT !.running = FALSE], <<>>, None, call, result)

\* the entry of the published array for one Diagnostic
PublishedDiagnostic(diag) ==
    [range |-> [start |-> [line |-> diag.line, character |-> diag.column],
                end |-> [line |-> diag.line, character |-> diag.end_column]],
     message |-> diag.message,
     severity |-> IF diag.severity = "error" THEN 1 ELSE 2]

\* self._parse_and_publish(uri, text): the parser after it and what it sent
parse_and_publish(parser, uri, text) ==
    Bind(parse(parser, text), LAMBDA parsed :
        [parser |-> parsed,
         sent |-> <<send_notification(
                      "textDocument/publishDiagnostics",
                      [uri |-> uri,
                       diagnostics |-> Map(get_diagnostics(parsed),
                                           PublishedDiagnostic)])>>])

handle_did_open(srv, uri, text) ==
    Bind(parse_and_publish(srv.parser, uri, text), LAMBDA pp :
        [Outcome([srv EXCEPT !.documents = SetItem(srv.documents, uri, text),
                             !.parser = pp.parser],
                 pp.sent, None,
                 "get_diagnostics", List(get_diagnostics(pp.parser)))
            EXCEPT !.parses = <<text>>])

\* changes is the contentChanges array: the texts of its entries
handle_did_change(srv, uri, changes) ==
    IF changes # <<>>
    THEN handle_did_open(srv, uri, changes[1])
    ELSE Outcome(srv, <<>>, None, call, result)

\* _handle_did_close without del self.documents[uri]
handle_did_close_keep(srv, uri) == Outcome(srv, <<>>, None, call, result)

handle_did_close(srv, uri) ==
    IF uri \in DOMAIN srv.documents
    THEN Outcome([srv EXCEPT !.documents = DelItem(srv.documents, uri)],
                 <<>>, None, call, result)
    ELSE Outcome(srv, <<>>, None, call, result)

\* if uri in self.documents: self.parser.parse(self.documents[uri])
reparse(srv, uri) ==
    IF uri \in DOMAIN srv.documents
    THEN [srv EXCEPT !.parser = parse(srv.parser, srv.documents[uri])]
    ELSE srv

\* the opening of the five query handlers: the document of the uri is
\* parsed again if the server holds it, the parser is asked (Query), and
\* its answer is turned into the result of the request (Convert)
handle_query(srv, uri, op, Query(_), Convert(_)) ==
    Bind(reparse(srv, uri), LAMBDA s :
    Bind(Query(s.parser), LAMBDA answer :
        [Outcome(s, <<>>,
                 IF answer.type = "raise" THEN answer ELSE Convert(answer),
                 op, answer)
            EXCEPT !.parses = IF uri \in DOMAIN srv.documents
                              THEN <<srv.documents[uri]>> ELSE <<>>]))

\* kind_map.get(kind, 6) of _handle_completion
CompletionItemKind(kind) ==
    CASE kind = "keyword" -> 14
      [] kind \in {"program", "task", "compool"} -> 2
      [] kind \in {"procedure", "function"} -> 3
      [] kind = "constant" -> 21
      [] kind = "structure" -> 22
      [] kind = "label" -> 20
      [] kind = "replace" -> 15
      [] OTHER -> 6

\* kind_map.get(kind, 13) of _handle_document_symbol
DocumentSymbolKind(kind) ==
    CASE kind \in {"program", "task", "compool"} -> 2
      [] kind \in {"procedure", "function"} -> 12
      [] kind = "constant" -> 14
      [] kind = "structure" -> 23
      [] kind = "label" -> 20
      [] kind = "replace" -> 15
      [] OTHER -> 13

\* the range of a name of the given length at (line, column)
NameRange(line, column, length) ==
    [start |-> [line |-> line, character |-> column],
     end |-> [line |-> line, character |-> column + length]]

handle_completion(srv, uri, line, char) ==
    handle_query(srv, uri, "get_completions",
        LAMBDA parser : get_completions(parser, line, char),
        LAMBDA completions :
            List(Map(completions.items, LAMBDA c :
                [label |-> c.label, kind |-> CompletionItemKind(c.kind),
                 detail |-> c.detail, documentation |-> c.documentation])))

handle_hover(srv, uri, line, char) ==
    handle_query(srv, uri, "get_hover",
        LAMBDA parser : get_hover(parser, line, char),
        LAMBDA hover :
            IF hover = None THEN None
            ELSE [type |-> "Hover",
                  contents |-> [kind |-> "markdown", value |-> hover.contents]])

handle_definition(srv, uri, line, char) ==
    handle_query(srv, uri, "get_definition",
        LAMBDA parser : get_definition(parser, line, char),
        LAMBDA definition :
            IF definition = None THEN None
            ELSE [type |-> "Location", uri |-> uri,
                  range |-> NameRange(definition.line, definition.column,
                                      Len(definition.name))])

handle_references(srv, uri, line, char) ==
    handle_query(srv, uri, "get_references_at",
        LAMBDA parser : get_references_at(parser, line, char),
        LAMBDA refs :
            List(Map(refs.items, LAMBDA ref :
                [uri |-> uri,
                 range |-> NameRange(ref.line, ref.column,
                                     ref.end_column - ref.column)])))

handle_document_symbol(srv, uri) ==
    handle_query(srv, uri, "get_document_symbols",
        LAMBDA parser : get_document_symbols(parser),
        LAMBDA syms :
            List(Map(syms.items, LAMBDA sym :
                [name |-> sym.name, kind |-> DocumentSymbolKind(sym.kind),
                 range |-> NameRange(sym.line, sym.column, Len(sym.name)),
                 selectionRange |-> NameRange(sym.line, sym.column,
                                              Len(sym.name)),
                 detail |-> sym.detail])))

\* the response _handle_message builds for a handled message
Response(msg_id, ret) == [jsonrpc |-> "2.0", id |-> msg_id, result |-> ret]

\* the response _handle_message builds for an unknown method
MethodNotFound(msg_id, method) ==
    [jsonrpc |-> "2.0", id |-> msg_id,
     error |-> [code |-> 0 - 32601,
                message |-> <<"Method not found: ", method>>]]

\* str(e) of the exception a handler raises
ExceptionText(exc) ==
    IF exc = "IndexError" THEN "list index out of range" ELSE exc

\* a message as _handle_message reads it: method, id (None without one)
\* and params
Message(method, msg_id, params) ==
    [method |-> method, id |-> msg_id, params |-> params]

\* params without a field the handlers read
NoParams == [none |-> TRUE]

\* a turn of the loop of start for a message with a known method: the
\* handler has left the outcome o; an exception is caught and logged, else
\* a message with an id is answered
Turn(outcome, msg) ==
    \E o \in {outcome} :
        /\ symbols' = o.server.parser.symbols
        /\ references' = o.server.parser.references
        /\ diagnostics' = o.server.parser.diagnostics
        /\ lines' = o.server.parser.lines
        /\ documents' = o.server.documents
        /\ running' = o.server.running
        /\ call' = o.call
        /\ result' = o.answer
        /\ message' = msg
        /\ parses' = o.parses
        /\ outbox' =
               o.sent \o
               (IF o.result.type = "raise"
                THEN <<log(<<"Error: ", ExceptionText(o.result.exc)>>)>>
                ELSE IF msg.id # None THEN <<Response(msg.id, o.result)>>
                ELSE <<>>)
        /\ UNCHANGED eof

\* the inputs of the server: document names, document texts, message ids
\* and cursor positions
URIs == {"file:///a.hal", "file:///b.hal"}

ServerTexts ==
    { <<"X",":","T","A","S","K",";">>,
      <<"X",":","T","A","S","K",";","\n","D","E","C","L","A","R","E"," ","X"," ","B","I","T",";">>,
      <<"N","A","V",":","\n","G","O"," ","T","O"," ","N","A","V",";">> }

\* the contentChanges arrays: none, one full text, two full texts
ContentChanges ==
    {<<>>} \cup { <<text>> : text \in ServerTexts }
           \cup { << <<"N","A","V",":","\n","G","O"," ","T","O"," ","N","A","V",";">>, <<"X",":","T","A","S","K",";">> >> }

Ids == {None, Id(1)}

Positions ==
    { [line |-> 0, character |-> 0],
      [line |-> 0, character |-> 1],
      [line |-> 1, character |-> 8],
      [line |-> 0 - 1, character |-> 0],
      [line |-> 0 - 3, character |-> 0] }

\* the params of a request about a position of a document
AtPosition(uri, position) ==
    [textDocument |-> [uri |-> uri], position |-> position]

Initialize(msg_id) ==
    /\ running
    /\ Turn(handle_initialize(Server),
            Message("initialize", msg_id, NoParams))

Initialized(msg_id) ==
    /\ running
    /\ Turn(handle_initialized(Server),
            Message("initialized", msg_id, NoParams))

Shutdown(msg_id) ==
    /\ running
    /\ Turn(handle_shutdown(Server), Message("shutdown", msg_id, NoParams))

Exit(msg_id) ==
    /\ running
    /\ Turn(handle_exit(Server), Message("exit", msg_id, NoParams))

DidOpen(msg_id, uri, text) ==
    /\ running
    /\ Turn(handle_did_open(Server, uri, text),
            Message("textDocument/didOpen", msg_id,
                    [textDocument |-> [uri |-> uri, text |-> text]]))

DidChange(msg_id, uri, changes) ==
    /\ running
    /\ Turn(handle_did_change(Server, uri, changes),
            Message("textDocument/didChange", msg_id,
                    [textDocument |-> [uri |-> uri],
                     contentChanges |-> changes]))

DidClose(msg_id, uri) ==
    /\ running
    /\ Turn(handle_did_close(Server, uri),
            Message("textDocument/didClose", msg_id,
                    [textDocument |-> [uri |-> uri]]))

Completion(msg_id, uri, position) ==
    /\ running
    /\ Turn(handle_completion(Server, uri, position.line, position.character),
            Message("textDocument/completion", msg_id,
                    AtPosition(uri, position)))

Hover(msg_id, uri, position) ==
    /\ running
    /\ Turn(handle_hover(Server, uri, position.line, position.character),
            Message("textDocument/hover", msg_id, AtPosition(uri, position)))

Definition(msg_id, uri, position) ==
    /\ running
    /\ Turn(handle_definition(Server, uri, position.line, position.character),
            Message("textDocument/definition", msg_id,
                    AtPosition(uri, position)))

References(msg_id, uri, position) ==
    /\ running
    /\ Turn(handle_references(Server, uri, position.line, position.character),
            Message("textDocument/references", msg_id,
                    AtPosition(uri, position)))

DocumentSymbol(msg_id, uri) ==
    /\ running
    /\ Turn(handle_document_symbol(Server, uri),
            Message("textDocument/documentSymbol", msg_id,
                    [textDocument |-> [uri |-> uri]]))

\* a message whose method has no handler
UnknownMethod(msg_id, method) ==
    /\ running
    /\ message' = Message(method, msg_id, NoParams)
    /\ parses' = <<>>
    /\ outbox' = IF msg_id # None THEN <<MethodNotFound(msg_id, method)>>
                 ELSE <<>>
    /\ UNCHANGED <<parser_vars, call, result, documents, running, eof>>

\* _read_message returns None for headers without Content-Length, and
\* start handles no message that is empty
NoMessage ==
    /\ running
    /\ message' = None
    /\ parses' = <<>>
    /\ outbox' = <<>>
    /\ UNCHANGED <<parser_vars, call, result, documents, running, eof>>

\* _read_message at the end of the input
EndOfInput ==
    /\ running
    /\ eof' = TRUE
    /\ running' = FALSE
    /\ message' = None
    /\ parses' = <<>>
    /\ outbox' = <<>>
    /\ UNCHANGED <<parser_vars, call, result, documents>>

ServerNext ==
    \/ \E msg_id \in Ids : Initialize(msg_id)
    \/ \E msg_id \in Ids : Initialized(msg_id)
    \/ \E msg_id \in Ids : Shutdown(msg_id)
    \/ \E msg_id \in Ids : Exit(msg_id)
    \/ \E msg_id \in Ids, uri \in URIs, text \in ServerTexts :
           DidOpen(msg_id, uri, text)
    \/ \E msg_id \in Ids, uri \in URIs, changes \in ContentChanges :
           DidChange(msg_id, uri, changes)
    \/ \E msg_id \in Ids, uri \in URIs : DidClose(msg_id, uri)
    \/ \E msg_id \in Ids, uri \in URIs, position \in Positions :
           Completion(msg_id, uri, position)
    \/ \E msg_id \in Ids, uri \in URIs, position \in Positions :
           Hover(msg_id, uri, position)
    \/ \E msg_id \in Ids, uri \in URIs, position \in Positions :
           Definition(msg_id, uri, position)
    \/ \E msg_id \in Ids, uri \in URIs, position \in Positions :
           References(msg_id, uri, position)
    \/ \E msg_id \in Ids, uri \in URIs : DocumentSymbol(msg_id, uri)
    \/ \E msg_id \in Ids : UnknownMethod(msg_id, "textDocument/rename")
    \/ NoMessage
    \/ EndOfInput

ServerSpec == Init /\ [][ServerNext]_vars

-----------------------------------------------------------------------------
(* Claims about the parser                                                 *)

\* the text of the most recent parse call: self.lines = text.split('\n')
LastText == Join(lines, "\n")

\* the normalized text the passes of the most recent parse call scanned
LastCleaned == Cleaned(LastText)

Parsed == lines # <<>>

\* C1: after any sequence of parse calls the symbol table, the reference
\* list, the diagnostic list and the line array are those a fresh parser
\* derives from the text of the most recent parse call alone; before the
\* first call they are those of __init__.
C1_StateFromLastText ==
    IF Parsed THEN Self = parse(ParserInit, LastText) ELSE Self = ParserInit

\* a parse call has left symbols and references, and the text it parsed is
\* not the only one whose parse leaves that symbol table
C1_Witness ==
    /\ call = "parse"
    /\ symbols # <<>>
    /\ Len(references) >= 2
    /\ Len(lines) = 2

\* the overwriting passes, in the order parse runs them
PassOrder ==
    <<"program", "procedure", "function", "task", "compool",
      "declare_simple", "declare_array", "declare_constant",
      "declare_vector", "declare_matrix", "structure", "replace">>

\* the Symbols pass number k builds from the last cleaned text
PassFound(k) == Found(LastCleaned)[PassOrder[k]]

\* the names matched by at least one overwriting pass
DeclaredNames ==
    UNION { { PassFound(k)[i].name : i \in DOMAIN PassFound(k) } :
            k \in DOMAIN PassOrder }

\* whether pass number k matches the name n
PassMatches(k, n) == \E i \in DOMAIN PassFound(k) : PassFound(k)[i].name = n

\* the latest pass, in pass order, that matches the name n
LatestPass(n) ==
    CHOOSE k \in DOMAIN PassOrder :
        PassMatches(k, n) /\ \A j \in DOMAIN PassOrder : j > k => ~PassMatches(j, n)

\* the Symbol pass number k builds for its textually last match of n
LastMatch(k, n) ==
    PassFound(k)[CHOOSE i \in DOMAIN PassFound(k) :
                     /\ PassFound(k)[i].name = n
                     /\ \A j \in DOMAIN PassFound(k) :
                            j > i => PassFound(k)[j].name # n]

\* C2: a canonical name matched by one or more of the twelve overwriting
\* passes is in the symbol table after parse, its Symbol is the one built by
\* the latest of those passes in pass order (for its textually last match),
\* whatever the textual order of the declarations, and no diagnostic is
\* recorded.
C2_LastWriteWins ==
    Parsed =>
        /\ \A n \in DeclaredNames :
               /\ HasSymbol(symbols, n)
               /\ SymbolOf(symbols, n) = LastMatch(LatestPass(n), n)
        /\ diagnostics = <<>>

\* a name declared twice, the declaration of the later pass on an earlier
\* line than the declaration of the earlier pass, and the later pass has won
C2_Witness ==
    /\ call = "parse"
    /\ \E j, k \in DOMAIN PassOrder :
           /\ j < k
           /\ \E a \in Range(PassFound(j)), b \in Range(PassFound(k)) :
                  /\ a.name = b.name
                  /\ b.line < a.line
                  /\ SymbolOf(symbols, a.name) = b
                  /\ a.kind # b.kind

\* the lines of the normalized text
CleanedLines == Split(LastCleaned, "\n")

\* whether an identifier occurrence starts at column c of the line l: a
\* letter or underscore that no letter, digit or underscore precedes
StartsIdentifier(l, c) ==
    /\ c + 1 <= Len(l)
    /\ IsIdentStart(l[c + 1])
    /\ (c = 0 \/ ~IsWordChar(l[c]))

\* the column just past the identifier occurrence that starts at column c
RECURSIVE IdentifierEnd(_, _)
IdentifierEnd(l, c) ==
    IF c + 1 <= Len(l) /\ IsWordChar(l[c + 1]) THEN IdentifierEnd(l, c + 1) ELSE c

\* the identifier occurrences of the normalized text: line, columns, name
Occurrences ==
    UNION { { [line |-> k - 1, column |-> c,
               end_column |-> IdentifierEnd(CleanedLines[k], c),
               name |-> Upper(SubSeq(CleanedLines[k], c + 1,
                                     IdentifierEnd(CleanedLines[k], c)))] :
              c \in { c \in 0..Len(CleanedLines[k]) :
                        StartsIdentifier(CleanedLines[k], c) } } :
            k \in DOMAIN CleanedLines }

\* C3: after parse the reference list holds exactly one Reference, with the
\* upper-cased name and the span (line, start column, end column = start +
\* length), for every identifier occurrence of the normalized text whose
\* upper-cased form is no keyword, whether or not the name is in the symbol
\* table, and no Reference whose name is a keyword.
C3_ReferenceCompleteness ==
    Parsed =>
        /\ \A o \in Occurrences :
               o.name \notin KEYWORDS =>
                   Cardinality({ i \in DOMAIN references : references[i] = o }) = 1
        /\ \A i \in DOMAIN references :
               /\ references[i].name \notin KEYWORDS
               /\ references[i].end_column
                      = references[i].column + Len(references[i].name)

\* the reference list holds the declaring occurrence of a symbol and an
\* occurrence of a name that is not in the symbol table, and the
\* normalized text holds a keyword
C3_Witness ==
    /\ call = "parse"
    /\ \E i \in DOMAIN references : ~HasSymbol(symbols, references[i].name)
    /\ \E i \in DOMAIN references :
           /\ HasSymbol(symbols, references[i].name)
           /\ SymbolOf(symbols, references[i].name).line = references[i].line
           /\ SymbolOf(symbols, references[i].name).column = references[i].column
    /\ \E o \in Occurrences : o.name \in KEYWORDS


\* whether column c of the line l is a character of an identifier token
InToken(l, c) ==
    \E s \in 0..c : StartsIdentifier(l, s) /\ c < IdentifierEnd(l, s)

\* the identifier token that holds column c of the line l
TokenAt(l, c) ==
    LET s == CHOOSE s \in 0..c : StartsIdentifier(l, s) /\ c < IdentifierEnd(l, s)
    IN  SubSeq(l, s + 1, IdentifierEnd(l, s))

\* the cursors on a line of the last parsed text
InRange(line) == 0 <= line /\ line < Len(lines)

\* C4: for every cursor whose column holds no character of an identifier
\* token (the column just after the last character of an identifier
\* included), hover and definition return no result and referencesAt
\* returns the empty list.
C4_TokenBoundary ==
    \A line \in CursorLines, column \in CursorColumns :
        (InRange(line) /\ ~InToken(lines[line + 1], column)) =>
            /\ get_hover(Self, line, column) = None
            /\ get_definition(Self, line, column) = None
            /\ get_references_at(Self, line, column) = List(<<>>)

\* the References named n, as get_references_at returns them
ReferencesNamed(n) ==
    LET refs == SelectSeq(references, LAMBDA ref : ref.name = n)
    IN  [i \in DOMAIN refs |->
            [line |-> refs[i].line, column |-> refs[i].column,
             end_column |-> refs[i].end_column]]

\* C6: with the cursor on an occurrence of a non-keyword identifier in the
\* document, referencesAt returns every Reference of the list whose name is
\* the upper-cased token, and among them a reference on the cursor's line
\* whose span holds the cursor column; with no token under the cursor it
\* returns the empty list.
C6_ReferencesAtCursor ==
    \A line \in CursorLines, column \in CursorColumns :
        InRange(line) =>
            LET r == get_references_at(Self, line, column)
                l == lines[line + 1]
            IN  IF ~InToken(l, column) THEN r = List(<<>>)
                ELSE Upper(TokenAt(l, column)) \notin KEYWORDS =>
                         /\ r = List(ReferencesNamed(Upper(TokenAt(l, column))))
                         /\ \E i \in DOMAIN r.items :
                                /\ r.items[i].line = line
                                /\ r.items[i].column <= column
                                /\ column < r.items[i].end_column

\* C7: for every line index outside the lines of the last parsed text (at
\* or beyond the line count, or negative) and every column, hover and
\* definition return no result, referencesAt returns the empty list, and
\* none of them raises.
C7_OutOfRangeLines ==
    \A line \in CursorLines, column \in CursorColumns :
        ~InRange(line) =>
            /\ get_hover(Self, line, column) = None
            /\ get_definition(Self, line, column) = None
            /\ get_references_at(Self, line, column) = List(<<>>)

\* the outline entry of a Symbol
OutlineEntry(sym) ==
    [name |-> sym.name, kind |-> sym.kind, detail |-> sym.data_type,
     line |-> sym.line, column |-> sym.column]

\* the place of the name n in the symbol table
TableIndex(n) == CHOOSE i \in DOMAIN symbols : symbols[i].name = n

\* the label matches of the last cleaned text
LabelFound == Found(LastCleaned).label

LabelPass == Len(PassOrder) + 1

\* the pass that wrote the Symbol the table holds for n
SurvivingPass(n) == IF n \in DeclaredNames THEN LatestPass(n) ELSE LabelPass

\* the pass that wrote n first, and the place of that match in the pass
FirstPass(n) ==
    IF n \in DeclaredNames
    THEN CHOOSE k \in DOMAIN PassOrder :
             PassMatches(k, n) /\ \A j \in 1..(k - 1) : ~PassMatches(j, n)
    ELSE LabelPass

FirstIndex(n) ==
    IF n \in DeclaredNames
    THEN LET ms == PassFound(FirstPass(n))
         IN  CHOOSE i \in DOMAIN ms :
                 ms[i].name = n /\ \A j \in 1..(i - 1) : ms[j].name # n
    ELSE LET stored(i) == /\ LabelFound[i].symbol.name = n
                          /\ ~LabelFound[i].unit_follows
         IN  CHOOSE i \in DOMAIN LabelFound :
                 stored(i) /\ \A j \in 1..(i - 1) : ~stored(j)

FirstWriteBefore(a, b) ==
    \/ FirstPass(a) < FirstPass(b)
    \/ FirstPass(a) = FirstPass(b) /\ FirstIndex(a) < FirstIndex(b)

\* the outline has one entry per symbol and ascends by declaration line
OutlineSorted(items) ==
    /\ Len(items) = Len(symbols)
    /\ \A i \in DOMAIN symbols :
           Cardinality({ j \in DOMAIN items :
                           items[j] = OutlineEntry(symbols[i]) }) = 1
    /\ \A i, j \in DOMAIN items : i < j => items[i].line <= items[j].line

\* C5 as stated: documentSymbols returns one entry per symbol, ascending
\* by declaration line, and entries of the same line are in the order of
\* the passes that produced the surviving symbols, also when a name written
\* by an early pass was overwritten by a later pass.
C5_OutlinePassOrder ==
    LET r == get_document_symbols(Self)
    IN  /\ r.type = "list"
        /\ OutlineSorted(r.items)
        /\ \A i, j \in DOMAIN r.items :
               (i < j /\ r.items[i].line = r.items[j].line) =>
                   SurvivingPass(r.items[i].name) <= SurvivingPass(r.items[j].name)

\* C5 amended: documentSymbols returns one entry per symbol, ascending by
\* declaration line, and entries of the same line are in symbol table
\* order, which is the order in which the names were first written: a name
\* overwritten by a later pass keeps the place of its first write.
C5_OutlineTableOrder ==
    LET r == get_document_symbols(Self)
    IN  /\ r.type = "list"
        /\ OutlineSorted(r.items)
        /\ \A i, j \in DOMAIN r.items :
               (i < j /\ r.items[i].line = r.items[j].line) =>
                   TableIndex(r.items[i].name) < TableIndex(r.items[j].name)
        /\ Parsed =>
               \A i, j \in DOMAIN symbols :
                   i < j => FirstWriteBefore(symbols[i].name, symbols[j].name)

\* documentSymbols has returned two entries of one line, the first of a
\* name that an early pass wrote first and a later pass overwrote, the
\* second of a name written by a pass between the two
C5_Witness ==
    /\ call = "get_document_symbols"
    /\ \E i, j \in DOMAIN result.items :
           /\ i < j
           /\ result.items[i].line = result.items[j].line
           /\ FirstPass(result.items[i].name) < SurvivingPass(result.items[j].name)
           /\ SurvivingPass(result.items[j].name) < SurvivingPass(result.items[i].name)

\* C8: a query, with any cursor, after any operation, leaves the symbol
\* table, the reference list, the diagnostic list and the line array
\* unchanged; a query without a cursor, or whose answer does not depend on
\* it, called again at once returns the same answer.
C8_QueriesKeepState ==
    [][call' \in Queries =>
           /\ UNCHANGED parser_vars
           /\ (call' = call /\ call \in {"get_diagnostics", "get_completions",
                                         "get_document_symbols"}) =>
                  result' = result]_vars

\* a query has answered from a parser state with symbols and references
C8_Witness ==
    /\ call \in Queries \ {"get_diagnostics"}
    /\ Len(symbols) >= 2
    /\ references # <<>>
    /\ result # None
    /\ result # List(<<>>)

\* C10: for every cursor, completion returns the same list: one entry of
\* kind keyword for every word of the keyword set, then one entry for every
\* symbol of the table in table order, none left out by the cursor's word.
C10_CompletionIgnoresCursor ==
    LET r == get_completions(Self, 0, 0)
        K == Cardinality(KEYWORDS)
    IN  /\ r.type = "list"
        /\ Len(r.items) = K + Len(symbols)
        /\ { r.items[i].label : i \in 1..K } = KEYWORDS
        /\ \A i \in 1..K : r.items[i].kind = "keyword"
        /\ \A i \in DOMAIN symbols :
               r.items[K + i] =
                   [label |-> symbols[i].name, kind |-> symbols[i].kind,
                    detail |-> symbols[i].data_type,
                    documentation |-> symbols[i].documentation]
        /\ \A line \in CursorLines, column \in CursorColumns :
               get_completions(Self, line, column) = r

\* completion has answered from a table of two symbols or more, after a
\* parse of a text with an identifier under some cursor
C10_Witness ==
    /\ call = "get_completions"
    /\ Len(symbols) >= 2
    /\ \E line \in CursorLines, column \in CursorColumns :
           InRange(line) /\ InToken(lines[line + 1], column)
    /\ Len(result.items) = Cardinality(KEYWORDS) + Len(symbols)

-----------------------------------------------------------------------------
(* Claims about the server                                                 *)

IsPublishDiagnostics(m) ==
    /\ "method" \in DOMAIN m
    /\ m.method = "textDocument/publishDiagnostics"

\* C9: the diagnostic list is empty in every reachable state: get_diagnostics
\* returns the empty list after any parse, of texts with duplicate
\* declarations too, and every publishDiagnostics notification the server
\* sends carries an empty diagnostics array.
C9_NoDiagnostics ==
    /\ diagnostics = <<>>
    /\ get_diagnostics(Self) = <<>>
    /\ \A i \in DOMAIN outbox :
           IsPublishDiagnostics(outbox[i]) =>
               outbox[i].params.diagnostics = <<>>

\* the server has published the diagnostics of a text that declares one
\* name in two passes
C9_Witness ==
    /\ \E i \in DOMAIN outbox :
           /\ IsPublishDiagnostics(outbox[i])
           /\ outbox[i].params.uri \in DOMAIN documents
           /\ documents[outbox[i].params.uri] = LastText
    /\ \E n \in DeclaredNames, j, k \in DOMAIN PassOrder :
           j < k /\ PassMatches(j, n) /\ PassMatches(k, n)
-----------------------------------------------------------------------------
(* Claims about comment lines and about hover and definition               *)

\* whether the line starts with C or c
IsCommentLine(l) == l # <<>> /\ UpperChar(l[1]) = "C"

\* the text with every line that starts with C or c cut down to that letter
WithoutCommentContent(text) ==
    Join(Map(Split(text, "\n"),
             LAMBDA l : IF IsCommentLine(l) THEN <<l[1]>> ELSE l),
         "\n")

\* C11: no symbol and no reference is derived from the content of a line
\* that starts with C or c: the symbol table and the reference list after
\* parse are those of the text with the content of these lines taken out.
C11_CommentLinesIgnored ==
    Parsed =>
        LET bare == parse(ParserInit, WithoutCommentContent(LastText))
        IN  /\ symbols = bare.symbols
            /\ references = bare.references

\* the hover result for a keyword, and for a Symbol
KeywordBanner(word) ==
    [type |-> "hover", contents |-> <<"**", word, "**\n\nHAL/S keyword">>]

SymbolHover(sym) ==
    [type |-> "hover",
     contents |-> <<"**", sym.name, "**: ", sym.data_type, "\n\n",
                    sym.documentation>>]

\* the Symbols of the table with the canonical name n
SymbolsNamed(n) == { symbols[i] : i \in { i \in DOMAIN symbols : symbols[i].name = n } }

\* C12: with the cursor on a character of an identifier token, hover gives
\* the keyword banner when the upper-cased token is a keyword, also when a
\* symbol of that name is declared, else the name, type and documentation
\* of the symbol of that name, else nothing; definition gives the line,
\* column and name stored for the symbol of that name, and nothing when
\* there is none.
C12_HoverAndDefinition ==
    \A line \in CursorLines, column \in CursorColumns :
        (InRange(line) /\ InToken(lines[line + 1], column)) =>
            LET word == Upper(TokenAt(lines[line + 1], column))
                hover == get_hover(Self, line, column)
                definition == get_definition(Self, line, column)
            IN  /\ Cardinality(SymbolsNamed(word)) <= 1
                /\ IF word \in KEYWORDS THEN hover = KeywordBanner(word)
                   ELSE IF SymbolsNamed(word) = {} THEN hover = None
                   ELSE \A sym \in SymbolsNamed(word) : hover = SymbolHover(sym)
                /\ IF SymbolsNamed(word) = {} THEN definition = None
                   ELSE \A sym \in SymbolsNamed(word) :
                            definition = [type |-> "definition",
                                          line |-> sym.line,
                                          column |-> sym.column,
                                          name |-> sym.name]

\* hover has answered with the keyword banner of a word that is also the
\* name of a symbol of the table
C12_Witness ==
    /\ call = "get_hover"
    /\ result.type = "hover"
    /\ \E n \in KEYWORDS : SymbolsNamed(n) # {} /\ result = KeywordBanner(n)

-----------------------------------------------------------------------------
(* Claims about the server: the documents, the responses and the loop      *)

\* the methods of the five query requests
QueryMethods ==
    {"textDocument/completion", "textDocument/hover",
     "textDocument/definition", "textDocument/references",
     "textDocument/documentSymbol"}

\* whether the latest message is a query that carries an id
QueryAsked ==
    IF message = None THEN FALSE
    ELSE message.method \in QueryMethods /\ message.id # None

\* what the handler of a query message returns on the server srv
QueryResult(srv, msg) ==
    LET uri == msg.params.textDocument.uri
        position == msg.params.position
    IN  CASE msg.method = "textDocument/completion" ->
                 handle_completion(srv, uri, position.line,
                                   position.character).result
          [] msg.method = "textDocument/hover" ->
                 handle_hover(srv, uri, position.line,
                              position.character).result
          [] msg.method = "textDocument/definition" ->
                 handle_definition(srv, uri, position.line,
                                   position.character).result
          [] msg.method = "textDocument/references" ->
                 handle_references(srv, uri, position.line,
                                   position.character).result
          [] OTHER -> handle_document_symbol(srv, uri).result

\* a server that holds the same documents and whose parser has seen the
\* text held for the uri and nothing else
OwnSession(uri) ==
    [parser |-> IF uri \in DOMAIN documents
                THEN parse(ParserInit, documents[uri])
                ELSE ParserInit,
     documents |-> documents,
     running |-> TRUE]

\* C13: a query request for a URI is answered from the text held for that
\* URI only: the response is the one a parser gives that has seen that text
\* and no other, and for a URI without a held text the one of a parser that
\* has seen no text.
C13_DocumentIsolation ==
    QueryAsked =>
        LET own == QueryResult(OwnSession(message.params.textDocument.uri),
                               message)
        IN  own.type # "raise" => outbox = <<Response(message.id, own)>>

\* the twelve methods that have a handler
KnownMethods ==
    {"initialize", "initialized", "shutdown", "exit",
     "textDocument/didOpen", "textDocument/didChange",
     "textDocument/didClose"} \cup QueryMethods

\* the responses among the messages sent for the latest message
Responses == SelectSeq(outbox, LAMBDA m : "id" \in DOMAIN m)

\* C14: a message with an id gets exactly one response, with that id: a
\* result when its method is one of the twelve known ones, the error
\* -32601 otherwise; a message without an id gets no response.
C14_ResponsePairing ==
    message # None =>
        IF message.id = None THEN Responses = <<>>
        ELSE /\ Len(Responses) = 1
             /\ Responses[1].id = message.id
             /\ IF message.method \in KnownMethods
                THEN "result" \in DOMAIN Responses[1]
                ELSE /\ "error" \in DOMAIN Responses[1]
                     /\ Responses[1].error.code = 0 - 32601

-----------------------------------------------------------------------------
(* Claims about the label pass, the continuation lines and the declaring   *)
(* occurrences                                                             *)

\* the matches of the label pattern in the last cleaned text
LabelMatches == FindIter(pattern_label, LastCleaned, 1)

\* whether, within the LabelLookahead characters from index e on, the text
\* begins after whitespace with a program unit keyword
UnitFollows(t, e) ==
    \E w \in UnitWords :
        /\ Lit(t, Spaces(t, e), w) # 0
        /\ Lit(t, Spaces(t, e), w) - e <= LabelLookahead

\* the label matches that no program unit keyword follows
LabelOccurrences ==
    { k \in DOMAIN LabelMatches : ~UnitFollows(LastCleaned, LabelMatches[k].end) }

\* C15: a symbol of kind label exists for a name exactly when no earlier
\* pass declared the name and the name has a label occurrence that no
\* program unit keyword follows within the lookahead; it stands at the
\* first such occurrence; a name an earlier pass declared keeps its kind.
C15_LabelsNeverOverride ==
    Parsed =>
        /\ \A i \in DOMAIN symbols :
               symbols[i].kind = "label" =>
                   /\ symbols[i].name \notin DeclaredNames
                   /\ \E k \in LabelOccurrences :
                          /\ Upper(LabelMatches[k].name) = symbols[i].name
                          /\ \A j \in LabelOccurrences :
                                 Upper(LabelMatches[j].name) = symbols[i].name
                                     => k <= j
                          /\ [line |-> symbols[i].line,
                              column |-> symbols[i].column]
                                 = find_position(LastCleaned,
                                                 LabelMatches[k].start)
        /\ \A k \in LabelOccurrences :
               \E i \in DOMAIN symbols :
                   /\ symbols[i].name = Upper(LabelMatches[k].name)
                   /\ symbols[i].kind = "label"
                          <=> symbols[i].name \notin DeclaredNames

\* a parsed text where a name that an earlier pass declared also has a
\* label occurrence that no unit keyword follows, and keeps its kind
C15_Witness ==
    /\ Parsed
    /\ \E k \in LabelOccurrences : \E i \in DOMAIN symbols :
           /\ symbols[i].name = Upper(LabelMatches[k].name)
           /\ symbols[i].name \in DeclaredNames
           /\ symbols[i].kind # "label"

\* whether _preprocess_multiline removes the line
IsRemovedLine(l) == l # <<>> /\ UpperChar(l[1]) \in {"E", "S"}

\* what _preprocess_multiline makes of a line it keeps
Unfolded(l) ==
    IF l = <<>> THEN l
    ELSE IF UpperChar(l[1]) = "M" THEN SubSeq(l, 2, Len(l))
    ELSE IF UpperChar(l[1]) = "C"
         THEN <<"/", "*">> \o SubSeq(l, 2, Len(l)) \o <<"*", "/">>
    ELSE l

\* the text after continuation unfolding, before the comments are removed
LastUnfolded == preprocess_multiline(LastText)

\* the indices of the characters of t that the removal of the block
\* comments keeps, from index i on
RECURSIVE KeptFrom(_, _)
KeptFrom(t, i) ==
    LET open == FindOpen(t, i)
    IN  IF open = 0 THEN [k \in 1..(Len(t) - i + 1) |-> i + k - 1] \o <<>>
        ELSE ([k \in 1..(open - i) |-> i + k - 1] \o <<>>)
             \o KeptFrom(t, FindClose(t, open + 2) + 2)

Kept == KeptFrom(LastUnfolded, 1)

\* the positions the symbols and the references carry
RecordedPositions ==
    { [line |-> symbols[i].line, column |-> symbols[i].column] :
          i \in DOMAIN symbols }
    \cup { [line |-> references[i].line, column |-> references[i].column] :
               i \in DOMAIN references }

\* for a recorded position: the index in the unfolded text of the character
\* it stands for
UnfoldedIndex(pos) ==
    Kept[CHOOSE c \in DOMAIN LastCleaned : find_position(LastCleaned, c) = pos]

\* the number of lines of the original text before line L (counted from 0)
\* that are removed
RemovedBefore(L) == Cardinality({ j \in 1..L : IsRemovedLine(lines[j]) })

\* the line of the original text (counted from 0) that the character with
\* index p of the unfolded text comes from
OriginalLine(p) ==
    CHOOSE L \in 0..(Len(lines) - 1) :
        /\ ~IsRemovedLine(lines[L + 1])
        /\ L - RemovedBefore(L) = CountNewlines(LastUnfolded, p - 1)

\* the number of line breaks before index p of the unfolded text that lie
\* inside a removed block comment
CommentBreaksBefore(p) ==
    Cardinality({ n \in 1..(p - 1) :
                    LastUnfolded[n] = "\n" /\ n \notin Range(Kept) })

\* continuation unfolding: the lines that do not start with E or S, in
\* their order, an M line without its first character, a C line as a block
\* comment of its remaining content, any other line as it is
UnfoldingByFirstCharacter ==
    LastUnfolded =
        Join(Map(SelectSeq(lines, LAMBDA l : ~IsRemovedLine(l)), Unfolded),
             "\n")

\* C16 as stated: besides the classification of the lines, the recorded
\* line of every symbol and reference is its line in the original text less
\* the number of removed lines before it.
C16_LinesShiftByRemoved ==
    Parsed =>
        /\ UnfoldingByFirstCharacter
        /\ \A pos \in RecordedPositions :
               LET L == OriginalLine(UnfoldedIndex(pos))
               IN  pos.line = L - RemovedBefore(L)

\* C16, amended: the recorded line of every symbol and reference is its
\* line in the original text less the number of removed lines before it and
\* less the number of line breaks that lie before it inside removed block
\* comments.
C16_LinesShiftByRemovedAndComments ==
    Parsed =>
        /\ UnfoldingByFirstCharacter
        /\ LastCleaned = [c \in DOMAIN Kept |-> LastUnfolded[Kept[c]]]
        /\ \A pos \in RecordedPositions :
               LET p == UnfoldedIndex(pos)
                   L == OriginalLine(p)
               IN  pos.line = L - RemovedBefore(L) - CommentBreaksBefore(p)

\* a parsed text with a symbol that follows a removed line and a line break
\* inside a block comment
C16_Witness ==
    /\ Parsed
    /\ \E i \in DOMAIN symbols :
           LET p == UnfoldedIndex([line |-> symbols[i].line,
                                   column |-> symbols[i].column])
           IN  /\ RemovedBefore(OriginalLine(p)) > 0
               /\ CommentBreaksBefore(p) > 0
               /\ symbols[i].line = OriginalLine(p) - 2

\* the kinds whose pattern begins with the name
NameFirstKinds ==
    {"program", "procedure", "function", "task", "compool", "label"}

\* the position a Symbol carries
RecordedPosition(sym) == [line |-> sym.line, column |-> sym.column]

\* whether the reference list has a Reference named n that starts at pos
HasReferenceAt(n, pos) ==
    \E i \in DOMAIN references :
        /\ references[i].name = n
        /\ references[i].line = pos.line
        /\ references[i].column = pos.column

\* the position of the name in the declaration of a Symbol: the recorded
\* position when the pattern begins with the name, otherwise the first
\* character after DECLARE or REPLACE and the whitespace that follows it
NamePosition(sym) ==
    IF sym.kind \in NameFirstKinds THEN RecordedPosition(sym)
    ELSE LET c == CHOOSE c \in DOMAIN LastCleaned :
                      find_position(LastCleaned, c) = RecordedPosition(sym)
             w == IF sym.kind = "replace" THEN wREPLACE ELSE wDECLARE
         IN  find_position(LastCleaned,
                           Spaces1(LastCleaned, Lit(LastCleaned, c, w)))

\* C17 as stated: for every symbol of the table the reference list has a
\* Reference with the symbol's name that starts at the symbol's recorded
\* position.
C17_ReferenceAtRecordedPosition ==
    Parsed =>
        \A i \in DOMAIN symbols :
            HasReferenceAt(symbols[i].name, RecordedPosition(symbols[i]))

\* C17, amended: for every symbol whose name is no keyword the reference
\* list has a Reference with the symbol's name that starts where the name
\* stands in the declaration: at the recorded position for program units
\* and labels, after the keyword DECLARE or REPLACE, which is where the
\* recorded position points, for the other kinds; a symbol whose name is a
\* keyword has no Reference.
C17_ReferenceAtDeclaredName ==
    Parsed =>
        \A i \in DOMAIN symbols :
            IF symbols[i].name \in KEYWORDS
            THEN \A j \in DOMAIN references :
                     references[j].name # symbols[i].name
            ELSE /\ HasReferenceAt(symbols[i].name, NamePosition(symbols[i]))
                 /\ symbols[i].kind \notin NameFirstKinds =>
                        /\ NamePosition(symbols[i]) # RecordedPosition(symbols[i])
                        /\ ~HasReferenceAt(symbols[i].name,
                                           RecordedPosition(symbols[i]))

\* a parsed text with a program unit whose Reference starts at its recorded
\* position and a declared variable whose Reference starts after DECLARE
C17_Witness ==
    /\ Parsed
    /\ \E i, j \in DOMAIN symbols :
           /\ symbols[i].kind \in NameFirstKinds
           /\ HasReferenceAt(symbols[i].name, RecordedPosition(symbols[i]))
           /\ symbols[j].kind = "variable"
           /\ NamePosition(symbols[j]) # RecordedPosition(symbols[j])
           /\ HasReferenceAt(symbols[j].name, NamePosition(symbols[j]))

-----------------------------------------------------------------------------
(* Claims about the document cache and the loop of the server              *)

\* the URIs of the publishDiagnostics notifications among the messages out
PublishedFor(out) ==
    Map(SelectSeq(out, IsPublishDiagnostics), LAMBDA m : m.params.uri)

\* docs with text held for uri and every other entry as it was
Caches(after, before, uri, text) ==
    /\ DOMAIN after = DOMAIN before \cup {uri}
    /\ after[uri] = text
    /\ \A u \in DOMAIN before \ {uri} : after[u] = before[u]

\* a step that handles msg: what it does to the documents, which texts it
\* parses and which diagnostics it publishes
CacheStep(msg) ==
    IF msg = None THEN documents' = documents
    ELSE IF msg.method = "textDocument/didOpen"
    THEN /\ Caches(documents', documents, msg.params.textDocument.uri,
                   msg.params.textDocument.text)
         /\ parses' = <<msg.params.textDocument.text>>
         /\ PublishedFor(outbox') = <<msg.params.textDocument.uri>>
    ELSE IF msg.method = "textDocument/didChange"
                /\ msg.params.contentChanges # <<>>
    THEN /\ Caches(documents', documents, msg.params.textDocument.uri,
                   msg.params.contentChanges[1])
         /\ parses' = <<msg.params.contentChanges[1]>>
         /\ PublishedFor(outbox') = <<msg.params.textDocument.uri>>
    ELSE IF msg.method = "textDocument/didClose"
    THEN /\ DOMAIN documents' = DOMAIN documents \ {msg.params.textDocument.uri}
         /\ \A u \in DOMAIN documents' : documents'[u] = documents[u]
         /\ parses' = <<>>
         /\ PublishedFor(outbox') = <<>>
    ELSE /\ documents' = documents
         /\ PublishedFor(outbox') = <<>>

\* C18: a didOpen and a didChange with content put the delivered text (of
\* a didChange, its first content entry) in the place of the URI, parse
\* that text once and publish diagnostics once, for that URI; a didClose
\* leaves the URI without text; every other message, and a didChange
\* without content, leaves the cache as it was and publishes nothing.
C18_DocumentCache == [][CacheStep(message')]_vars

\* a didChange with two content entries has been handled for a URI while
\* the other URI holds another text
C18_Witness ==
    /\ IF message = None THEN FALSE
       ELSE /\ message.method = "textDocument/didChange"
            /\ Len(message.params.contentChanges) = 2
            /\ documents[message.params.textDocument.uri]
                   = message.params.contentChanges[1]
            /\ parses = <<message.params.contentChanges[1]>>
            /\ \E u \in DOMAIN documents :
                   documents[u] # message.params.contentChanges[1]

\* whether msg is an exit message
IsExit(msg) == IF msg = None THEN FALSE ELSE msg.method = "exit"

\* C19: a step of the loop is taken only while the server is running, and
\* it leaves the server running unless the message it handled is exit or
\* the input has ended: after one of these nothing more is handled, while
\* shutdown, a message without Content-Length and a handler that raises
\* leave the loop going.
C19_LoopLifecycle ==
    [][/\ running
       /\ running' = ~(IsExit(message') \/ eof')]_vars

\* the loop has stopped on an exit message, with input still to come
C19_Witness ==
    /\ ~running
    /\ IsExit(message)
    /\ ~eof

=============================================================================
